---- MODULE Spec2Model ----
(***************************************************************************)
(* errsole-sqlite: the SQLite storage adapter of Errsole.                  *)
(*                                                                         *)
(* The model follows src/lib/index.js (class ErrsoleSQLite).  One action   *)
(* is one turn of the Node.js event loop: the synchronous part of a call   *)
(* up to its first await, or one callback / timer wake-up together with    *)
(* the promise continuations (microtasks) it releases.  A statement handed *)
(* to sqlite3 is "in flight" from the turn that issues it to the turn that *)
(* runs its callback; the statement takes effect in the callback's turn.   *)
(* Whether a statement succeeds is an input of the callback.               *)
(*                                                                         *)
(* Time is counted in half days (TicksPerDay ticks make one calendar day). *)
(***************************************************************************)
EXTENDS Integers, Sequences, FiniteSets, TLC

\* ------------------------------------------------------------- bounds
MaxCalls == 2          \* postLogs invocations
MaxBatch == 2          \* entries handed to one postLogs call
MaxEntries == 3        \* log entries created by the callers altogether
MaxFlushes == 2        \* flushLogs invocations
batchSize == 2         \* the buffer length that triggers a flush (configured; 100 by default)
MaxSweeps == 2         \* deleteExpiredLogs invocations
MaxDays == 1           \* the clock stops after this many days
ChunkLimit == 2        \* rows one DELETE removes at most (LIMIT 1000 in the source)
MaxNotifs == 3         \* insertNotificationItem invocations
MaxOpen == 2           \* notification transactions under way at one time
MaxCount == 6          \* the per-invocation statement counter stops counting here
MaxRows == 5           \* old rows in errsole_logs when a sweep starts
MaxOps == 2            \* setConfig / deleteConfig calls made by the host

TicksPerDay == 2       \* clock ticks in one calendar day
DefaultTTLDays == 1    \* the default TTL in days (30 in the source), scaled to the model's calendar

\* ---------------------------------------------------------- constants
NumQueries == 3        \* queries.length of defineTables
desiredSize == 8192    \* setCacheSize: the cache size asked for
DEFAULT_TTL == DefaultTTLDays * TicksPerDay   \* ensureLogsTTL's default, in ticks

Calls == 1..MaxCalls
Flushes == 1..MaxFlushes
Sweeps == 1..MaxSweeps
Notifs == 1..MaxNotifs
Fingerprints == {"a", "b"}
Queries == 1..NumQueries
Ops == 1..MaxOps

VARIABLES
  \* constructor / initialize / defineTables
  dbOpen,                  \* "opening" | "open" | "failed": sqlite3.Database callback
  initPc,                  \* position of initialize()
  ddl,                     \* per CREATE TABLE statement: "none" | "queued" | "ok" | "err"
  remainingQueries,        \* defineTables' counter
  definePromise,           \* the promise defineTables returns
  isConnectionInProgress,  \* the schema gate
  readyEmitted,            \* number of 'ready' events emitted
  cronJobs,                \* number of cron.schedule calls
  ttlPc,                   \* position of the ensureLogsTTL() call of initialize
  cachePc,                 \* position of the setCacheSize() call of initialize
  cacheSize,               \* PRAGMA cache_size of the connection
  \* the errsole_config table
  config,                  \* set of rows [key, value]; key is UNIQUE
  \* the errsole_logs table
  logs,                    \* set of rows [id, entry, ts]
  nextId,                  \* AUTOINCREMENT: next id of errsole_logs
  now,                     \* the clock (Date.now(), CURRENT_TIMESTAMP)
  \* postLogs
  nextEntry,               \* next fresh log entry a caller creates
  pc,                      \* per postLogs call: position
  batch,                   \* per postLogs call: its logEntries argument
  waited,                  \* per postLogs call: it entered the polling loop
  insertErr,               \* per postLogs call: the INSERT's callback received an error
  inserts,                 \* per postLogs call: INSERT statements it has handed to db.run
  \* the pending buffer and flushLogs
  pendingLogs,             \* the in-memory buffer
  appended,                \* every entry appendLogs accepted, in order
  flushPc,                 \* per flushLogs call: position
  flushBatch,              \* per flushLogs call: the batch it drained
  flushErr,                \* per flushLogs call: the INSERT's callback received an error
  drained,                 \* the flushLogs calls in the order of their drains
  \* deleteExpiredLogs
  deleteExpiredLogsRunning,\* the re-entrancy flag
  sweepPc,                 \* per invocation: position
  expirationTime,          \* per invocation: the cutoff text
  deletedRowCount,         \* per invocation: rows the last DELETE removed
  sweepQueries,            \* per invocation: statements handed to the database
  sweepErrors,             \* per invocation: errors it has caught and logged
  sweepOutcome,            \* per invocation: how its promise settled
  sweepSkipped,            \* per invocation: it found the flag set and returned
  sweepReadErr,            \* per invocation: getConfig's callback received an error
  sweepChunks,             \* per invocation: this.changes of each of its DELETEs, in order
  \* the errsole_notifications table and insertNotificationItem
  notifications,           \* set of rows [id, fp, created_at]
  nextNotifId,             \* AUTOINCREMENT: next id of errsole_notifications
  nPc,                     \* per invocation: position
  nFp,                     \* per invocation: the fingerprint (hashed_message) it was given
  previous,                \* per invocation: previousNotificationItem, {} when there is none
  todayCount,              \* per invocation: todayNotificationCount
  nInserted,               \* per invocation: the rows it has inserted
  nDate,                   \* per invocation: the calendar day on which it was called
  nOverlapped,             \* per invocation: another one with its fingerprint ran during it
  nCrossedDay,             \* per invocation: the day changed while it ran
  nBefore,                 \* per invocation: rows of its fingerprint when it was called
  \* setConfig / deleteConfig called by the host with the key 'logsTTL'
  opPc,                    \* per call: position
  opKind,                  \* per call: "set" | "delete"
  opValue,                 \* per call: the value given to setConfig
  opOutcome,               \* per call: what its promise settled with, or the exception thrown
  \* deleteExpiredNotificationItems
  deleteExpiredNotificationItemsRunning, \* its re-entrancy flag
  nsPc,                    \* per invocation: position
  nsCutoff,                \* per invocation: the cutoff text
  nsIds,                   \* per invocation: the ids its last SELECT returned
  nsErrors,                \* per invocation: errors it has caught and logged
  \* initialize() called a second time by the host
  againPc,                 \* position of the second initialize()
  againDdl,                \* per CREATE TABLE statement of its defineTables
  againRemaining,          \* its defineTables' counter
  againTtlPc,              \* position of its ensureLogsTTL() call
  againCachePc             \* position of its setCacheSize() call

lifeVars == <<dbOpen, initPc, ddl, remainingQueries, definePromise,
              isConnectionInProgress, readyEmitted, cronJobs, ttlPc, cachePc,
              cacheSize>>
cfgVars == <<config>>
tableVars == <<logs, nextId, now>>
entryVars == <<nextEntry>>
postVars == <<pc, batch, waited, insertErr, inserts>>
bufVars == <<pendingLogs, appended, flushPc, flushBatch, flushErr, drained>>
sweepVars == <<deleteExpiredLogsRunning, sweepPc, expirationTime, deletedRowCount,
               sweepQueries, sweepErrors, sweepOutcome, sweepSkipped, sweepReadErr, sweepChunks>>
notifVars == <<notifications, nextNotifId, nPc, nFp, previous, todayCount, nInserted,
               nDate, nOverlapped, nCrossedDay, nBefore>>
opVars == <<opPc, opKind, opValue, opOutcome>>
nsVars == <<deleteExpiredNotificationItemsRunning, nsPc, nsCutoff, nsIds, nsErrors>>
againVars == <<againPc, againDdl, againRemaining, againTtlPc, againCachePc>>
vars == <<lifeVars, cfgVars, tableVars, entryVars, postVars, bufVars, sweepVars, notifVars,
          opVars, nsVars, againVars>>

\* ------------------------------------------------------------ helpers
Range(s) == {s[i] : i \in 1..Len(s)}

\* Text values are sequences of one-character strings.
Digits == <<"0", "1", "2", "3", "4", "5", "6", "7", "8", "9">>
IsDigit(ch) == ch \in Range(Digits)
DigitVal(ch) == CHOOSE d \in 0..9 : Digits[d + 1] = ch

\* Number.prototype.toString(): the decimal text of an integer
RECURSIVE toString(_)
toString(n) ==
  IF n < 0 THEN <<"-">> \o toString(0 - n)
  ELSE IF n < 10 THEN <<Digits[n + 1]>>
  ELSE toString(n \div 10) \o <<Digits[(n % 10) + 1]>>

RECURSIVE TrimLeft(_)
TrimLeft(s) == IF s # <<>> /\ Head(s) = " " THEN TrimLeft(Tail(s)) ELSE s

RECURSIVE CountDigits(_)
CountDigits(s) == IF s = <<>> \/ ~IsDigit(Head(s)) THEN 0 ELSE 1 + CountDigits(Tail(s))

RECURSIVE Decimal(_)
Decimal(ds) ==
  IF ds = <<>> THEN 0
  ELSE Decimal(SubSeq(ds, 1, Len(ds) - 1)) * 10 + DigitVal(ds[Len(ds)])

\* parseInt(text, 10): leading blanks, an optional sign, the longest run of
\* digits; NaN when there is no digit
parseInt(s) ==
  LET t == TrimLeft(s)
      signed == t # <<>> /\ Head(t) \in {"-", "+"}
      u == IF signed THEN Tail(t) ELSE t
      n == CountDigits(u)
  IN  IF n = 0 THEN [nan |-> TRUE, val |-> 0]
      ELSE [nan |-> FALSE,
            val |-> (IF signed /\ Head(t) = "-" THEN -1 ELSE 1) * Decimal(SubSeq(u, 1, n))]

\* Timestamps are text: <<date, separator, time of day>>, compared as text
\* (field by field, the separator by its character code).
CharCode(ch) == IF ch = " " THEN 32 ELSE 84
\* SQLite's CURRENT_TIMESTAMP: 'YYYY-MM-DD HH:MM:SS'
CURRENT_TIMESTAMP(t) == <<t \div TicksPerDay, " ", t % TicksPerDay>>
\* Date.prototype.toISOString(): 'YYYY-MM-DDTHH:MM:SS.sssZ'
toISOString(t) == <<t \div TicksPerDay, "T", t % TicksPerDay>>
TextLess(a, b) ==
  \/ a[1] < b[1]
  \/ a[1] = b[1] /\ CharCode(a[2]) < CharCode(b[2])
  \/ a[1] = b[1] /\ a[2] = b[2] /\ a[3] < b[3]

\* InsertedRows with the ids handed out from the last entry to the first
InsertedRowsReversed(entries, firstId, t) ==
  {[id |-> firstId + Len(entries) - i, entry |-> entries[i], ts |-> CURRENT_TIMESTAMP(t)] :
     i \in 1..Len(entries)}

\* the rows a multi-row INSERT adds: ids in VALUES order, timestamp defaulted
InsertedRows(entries, firstId, t) ==
  {[id |-> firstId + i - 1, entry |-> entries[i], ts |-> CURRENT_TIMESTAMP(t)] :
     i \in 1..Len(entries)}

\* Invocations are numbered in the order in which they are made: i is the
\* next one when it is the lowest that has not begun.
IsNext(pcs, i) == pcs[i] = "idle" /\ \A j \in DOMAIN pcs : j < i => pcs[j] # "idle"

\* sequences of n fresh entries starting at e
FreshEntries(e, n) == [i \in 1..n |-> e + i - 1]

\* getConfig(key): the row's value wrapped in a set, {} when there is no row
ConfigItem(cfg, key) == {r \in cfg : r.key = key}
\* Upsert as a plain INSERT into a table whose key is not UNIQUE
UpsertAppend(cfg, key, value) ==
  cfg \cup {[key |-> key, value |-> value]}
\* setConfig's INSERT ... ON CONFLICT(key) DO UPDATE SET value = excluded.value
Upsert(cfg, key, value) ==
  {r \in cfg : r.key # key} \cup {[key |-> key, value |-> value]}

\* ----------------------------------------------------------- lifecycle
LifeInit ==
  /\ dbOpen = "opening"
  /\ initPc = "none"
  /\ ddl = [q \in Queries |-> "none"]
  /\ remainingQueries = 0
  /\ definePromise = "none"
  /\ isConnectionInProgress = TRUE
  /\ readyEmitted = 0
  /\ cronJobs = 0
  /\ ttlPc = "none"
  /\ cachePc = "none"
  /\ cacheSize \in {-2000, desiredSize}

PostInit ==
  /\ pc = [c \in Calls |-> "idle"]
  /\ batch = [c \in Calls |-> <<>>]
  /\ waited = [c \in Calls |-> FALSE]
  /\ insertErr = [c \in Calls |-> FALSE]
  /\ inserts = [c \in Calls |-> 0]

BufInit ==
  /\ pendingLogs = <<>>
  /\ appended = <<>>
  /\ flushPc = [f \in Flushes |-> "idle"]
  /\ flushBatch = [f \in Flushes |-> <<>>]
  /\ flushErr = [f \in Flushes |-> FALSE]
  /\ drained = <<>>

SweepInit ==
  /\ deleteExpiredLogsRunning = FALSE
  /\ sweepPc = [s \in Sweeps |-> "idle"]
  /\ expirationTime = [s \in Sweeps |-> <<>>]
  /\ deletedRowCount = [s \in Sweeps |-> 0]
  /\ sweepQueries = [s \in Sweeps |-> 0]
  /\ sweepErrors = [s \in Sweeps |-> 0]
  /\ sweepOutcome = [s \in Sweeps |-> "none"]
  /\ sweepSkipped = [s \in Sweeps |-> FALSE]
  /\ sweepReadErr = [s \in Sweeps |-> FALSE]
  /\ sweepChunks = [s \in Sweeps |-> <<>>]

NotifInit ==
  /\ notifications = {}
  /\ nextNotifId = 1
  /\ nPc = [n \in Notifs |-> "idle"]
  /\ nFp = [n \in Notifs |-> "a"]
  /\ previous = [n \in Notifs |-> {}]
  /\ todayCount = [n \in Notifs |-> 0]
  /\ nInserted = [n \in Notifs |-> {}]
  /\ nDate = [n \in Notifs |-> 0]
  /\ nOverlapped = [n \in Notifs |-> FALSE]
  /\ nCrossedDay = [n \in Notifs |-> FALSE]
  /\ nBefore = [n \in Notifs |-> 0]

OpInit ==
  /\ opPc = [o \in Ops |-> "idle"]
  /\ opKind = [o \in Ops |-> "set"]
  /\ opValue = [o \in Ops |-> <<>>]
  /\ opOutcome = [o \in Ops |-> "none"]

NSweepInit ==
  /\ deleteExpiredNotificationItemsRunning = FALSE
  /\ nsPc = [s \in Sweeps |-> "idle"]
  /\ nsCutoff = [s \in Sweeps |-> <<>>]
  /\ nsIds = [s \in Sweeps |-> {}]
  /\ nsErrors = [s \in Sweeps |-> 0]

AgainInit ==
  /\ againPc = "none"
  /\ againDdl = [q \in Queries |-> "none"]
  /\ againRemaining = 0
  /\ againTtlPc = "none"
  /\ againCachePc = "none"

Init ==
  /\ LifeInit
  /\ config = {}
  /\ logs = {}
  /\ nextId = 1
  /\ now = 0
  /\ nextEntry = 1
  /\ PostInit
  /\ BufInit
  /\ SweepInit
  /\ NotifInit
  /\ OpInit
  /\ NSweepInit
  /\ AgainInit

\* defineTables up to its return: every CREATE TABLE is handed to db.run
defineTables ==
  /\ ddl' = [q \in Queries |-> "queued"]
  /\ remainingQueries' = NumQueries
  /\ definePromise' = "pending"

\* constructorCallback of an initialize that emits 'ready' and schedules the
\* job before it waits for defineTables
constructorCallbackReadyFirst(err) ==
  /\ dbOpen = "opening"
  /\ IF err
       THEN /\ dbOpen' = "failed"
            /\ UNCHANGED <<initPc, ddl, remainingQueries, definePromise, readyEmitted, cronJobs>>
       ELSE /\ dbOpen' = "open"
            /\ initPc' = "defineTables"
            /\ defineTables
            /\ readyEmitted' = readyEmitted + 1
            /\ cronJobs' = cronJobs + 1
  /\ UNCHANGED <<isConnectionInProgress, ttlPc, cachePc, cacheSize>>
  /\ UNCHANGED <<cfgVars, tableVars, entryVars, postVars, bufVars, sweepVars, notifVars, opVars, nsVars, againVars>>

\* the sqlite3.Database callback: on success it calls initialize(), which runs
\* up to `await this.defineTables()`
constructorCallback(err) ==
  /\ dbOpen = "opening"
  /\ IF err
       THEN /\ dbOpen' = "failed"
            /\ UNCHANGED <<initPc, ddl, remainingQueries, definePromise>>
       ELSE /\ dbOpen' = "open"
            /\ initPc' = "defineTables"
            /\ defineTables
  /\ UNCHANGED <<isConnectionInProgress, readyEmitted, cronJobs, ttlPc, cachePc, cacheSize>>
  /\ UNCHANGED <<cfgVars, tableVars, entryVars, postVars, bufVars, sweepVars, notifVars, opVars, nsVars, againVars>>

\* the rest of initialize() once defineTables has resolved: ensureLogsTTL()
\* and setCacheSize() are started (neither is awaited), 'ready' is emitted
\* and the hourly job is scheduled
initializeResume ==
  /\ ttlPc' = "getConfig"
  /\ cachePc' = "getCacheSize"
  /\ readyEmitted' = readyEmitted + 1
  /\ cronJobs' = cronJobs + 1
  /\ initPc' = "ready"

\* defineTablesCallback that counts a failed statement as done
defineTablesCallbackCountAll(q, err) ==
  /\ ddl[q] = "queued"
  /\ ddl' = [ddl EXCEPT ![q] = IF err THEN "err" ELSE "ok"]
  /\ remainingQueries' = remainingQueries - 1
  /\ IF remainingQueries - 1 = 0
       THEN /\ isConnectionInProgress' = FALSE
            /\ definePromise' = "resolved"
            /\ initializeResume
       ELSE UNCHANGED <<isConnectionInProgress, definePromise, initPc,
                        readyEmitted, cronJobs, ttlPc, cachePc>>
  /\ UNCHANGED <<dbOpen, cacheSize>>
  /\ UNCHANGED <<cfgVars, tableVars, entryVars, postVars, bufVars, sweepVars, notifVars, opVars, nsVars, againVars>>

\* the callback of one CREATE TABLE statement, and the continuation of
\* initialize() that the settled promise releases
defineTablesCallback(q, err) ==
  /\ ddl[q] = "queued"
  /\ IF err
       THEN /\ ddl' = [ddl EXCEPT ![q] = "err"]
            /\ definePromise' = IF definePromise = "pending" THEN "rejected" ELSE definePromise
            /\ initPc' = IF definePromise = "pending" THEN "failed" ELSE initPc
            /\ UNCHANGED <<remainingQueries, isConnectionInProgress, readyEmitted,
                           cronJobs, ttlPc, cachePc>>
       ELSE /\ ddl' = [ddl EXCEPT ![q] = "ok"]
            /\ remainingQueries' = remainingQueries - 1
            /\ IF remainingQueries - 1 = 0
                 THEN /\ isConnectionInProgress' = FALSE
                      /\ definePromise' = "resolved"
                      /\ initializeResume
                 ELSE UNCHANGED <<isConnectionInProgress, definePromise, initPc,
                                  readyEmitted, cronJobs, ttlPc, cachePc>>
  /\ UNCHANGED <<dbOpen, cacheSize>>
  /\ UNCHANGED <<cfgVars, tableVars, entryVars, postVars, bufVars, sweepVars, notifVars, opVars, nsVars, againVars>>

\* ensureLogsTTL: the callback of getConfig('logsTTL'); without a row it goes
\* on to setConfig('logsTTL', DEFAULT_TTL.toString()); an error is swallowed
ensureLogsTTLGetCallback(err) ==
  /\ ttlPc = "getConfig"
  /\ ttlPc' = IF ~err /\ ConfigItem(config, "logsTTL") = {} THEN "setConfig" ELSE "done"
  /\ UNCHANGED <<dbOpen, initPc, ddl, remainingQueries, definePromise,
                 isConnectionInProgress, readyEmitted, cronJobs, cachePc, cacheSize>>
  /\ UNCHANGED <<cfgVars, tableVars, entryVars, postVars, bufVars, sweepVars, notifVars, opVars, nsVars, againVars>>

\* ensureLogsTTL: the callback of setConfig's upsert, which goes on to read
\* the row back
ensureLogsTTLSetCallback(err) ==
  /\ ttlPc = "setConfig"
  /\ IF err
       THEN ttlPc' = "done" /\ UNCHANGED config
       ELSE /\ ttlPc' = "readBack"
            /\ config' = Upsert(config, "logsTTL", toString(DEFAULT_TTL))
  /\ UNCHANGED <<dbOpen, initPc, ddl, remainingQueries, definePromise,
                 isConnectionInProgress, readyEmitted, cronJobs, cachePc, cacheSize>>
  /\ UNCHANGED <<tableVars, entryVars, postVars, bufVars, sweepVars, notifVars, opVars, nsVars, againVars>>

\* ensureLogsTTL: the callback of setConfig's getConfig
ensureLogsTTLReadBack ==
  /\ ttlPc = "readBack"
  /\ ttlPc' = "done"
  /\ UNCHANGED <<dbOpen, initPc, ddl, remainingQueries, definePromise,
                 isConnectionInProgress, readyEmitted, cronJobs, cachePc, cacheSize>>
  /\ UNCHANGED <<cfgVars, tableVars, entryVars, postVars, bufVars, sweepVars, notifVars, opVars, nsVars, againVars>>

\* setCacheSize: the callback of getCacheSize's PRAGMA
getCacheSizeCallback(err) ==
  /\ cachePc = "getCacheSize"
  /\ cachePc' = IF err THEN "rejected"
                ELSE IF cacheSize < desiredSize THEN "run" ELSE "resolved"
  /\ UNCHANGED <<dbOpen, initPc, ddl, remainingQueries, definePromise,
                 isConnectionInProgress, readyEmitted, cronJobs, ttlPc, cacheSize>>
  /\ UNCHANGED <<cfgVars, tableVars, entryVars, postVars, bufVars, sweepVars, notifVars, opVars, nsVars, againVars>>

\* setCacheSize: the callback of PRAGMA cache_size = desiredSize
setCacheSizeCallback(err) ==
  /\ cachePc = "run"
  /\ IF err
       THEN cachePc' = "rejected" /\ UNCHANGED cacheSize
       ELSE cachePc' = "resolved" /\ cacheSize' = desiredSize
  /\ UNCHANGED <<dbOpen, initPc, ddl, remainingQueries, definePromise,
                 isConnectionInProgress, readyEmitted, cronJobs, ttlPc>>
  /\ UNCHANGED <<cfgVars, tableVars, entryVars, postVars, bufVars, sweepVars, notifVars, opVars, nsVars, againVars>>

\* ------------------------------------------- initialize(), a second time
\* initialize() is a public method; the host calls it on an adapter whose
\* database is open.  It runs as the first call does, with its own
\* defineTables counter and its own ensureLogsTTL and setCacheSize calls.
\* initializeAgain of a defineTables that closes the gate while it runs
initializeAgainCloseGate ==
  /\ dbOpen = "open"
  /\ againPc = "none"
  /\ againPc' = "defineTables"
  /\ againDdl' = [q \in Queries |-> "queued"]
  /\ againRemaining' = NumQueries
  /\ isConnectionInProgress' = TRUE
  /\ UNCHANGED <<againTtlPc, againCachePc>>
  /\ UNCHANGED <<dbOpen, initPc, ddl, remainingQueries, definePromise, ttlPc, cachePc, readyEmitted, cronJobs, cacheSize>>
  /\ UNCHANGED cfgVars
  /\ UNCHANGED <<tableVars, entryVars, postVars, bufVars, sweepVars, notifVars, opVars, nsVars>>

\* initialize() up to `await this.defineTables()`
initializeAgain ==
  /\ dbOpen = "open"
  /\ againPc = "none"
  /\ againPc' = "defineTables"
  /\ againDdl' = [q \in Queries |-> "queued"]
  /\ againRemaining' = NumQueries
  /\ UNCHANGED <<againTtlPc, againCachePc>>
  /\ UNCHANGED lifeVars
  /\ UNCHANGED cfgVars
  /\ UNCHANGED <<tableVars, entryVars, postVars, bufVars, sweepVars, notifVars, opVars, nsVars>>

\* the callback of one CREATE TABLE IF NOT EXISTS of the second defineTables,
\* and the continuation of the second initialize()
defineTablesAgainCallback(q, err) ==
  /\ againDdl[q] = "queued"
  /\ IF err
       THEN /\ againDdl' = [againDdl EXCEPT ![q] = "err"]
            /\ againPc' = IF againPc = "defineTables" THEN "failed" ELSE againPc
            /\ UNCHANGED <<againRemaining, againTtlPc, againCachePc,
                           isConnectionInProgress, readyEmitted, cronJobs>>
       ELSE /\ againDdl' = [againDdl EXCEPT ![q] = "ok"]
            /\ againRemaining' = againRemaining - 1
            /\ IF againRemaining - 1 = 0
                 THEN /\ isConnectionInProgress' = FALSE
                      /\ againTtlPc' = "getConfig"
                      /\ againCachePc' = "getCacheSize"
                      /\ readyEmitted' = readyEmitted + 1
                      /\ cronJobs' = cronJobs + 1
                      /\ againPc' = "ready"
                 ELSE UNCHANGED <<againPc, againTtlPc, againCachePc,
                                  isConnectionInProgress, readyEmitted, cronJobs>>
  /\ UNCHANGED <<dbOpen, initPc, ddl, remainingQueries, definePromise, ttlPc, cachePc, cacheSize>>
  /\ UNCHANGED cfgVars
  /\ UNCHANGED <<tableVars, entryVars, postVars, bufVars, sweepVars, notifVars, opVars, nsVars>>

\* the second ensureLogsTTL: the callback of getConfig('logsTTL')
ensureLogsTTLAgainGetCallback(err) ==
  /\ againTtlPc = "getConfig"
  /\ againTtlPc' = IF ~err /\ ConfigItem(config, "logsTTL") = {} THEN "setConfig" ELSE "done"
  /\ UNCHANGED <<againPc, againDdl, againRemaining, againCachePc>>
  /\ UNCHANGED lifeVars
  /\ UNCHANGED cfgVars
  /\ UNCHANGED <<tableVars, entryVars, postVars, bufVars, sweepVars, notifVars, opVars, nsVars>>

\* the second ensureLogsTTL: the callback of setConfig's upsert
ensureLogsTTLAgainSetCallback(err) ==
  /\ againTtlPc = "setConfig"
  /\ IF err
       THEN againTtlPc' = "done" /\ UNCHANGED config
       ELSE /\ againTtlPc' = "readBack"
            /\ config' = Upsert(config, "logsTTL", toString(DEFAULT_TTL))
  /\ UNCHANGED <<againPc, againDdl, againRemaining, againCachePc>>
  /\ UNCHANGED lifeVars
  /\ UNCHANGED <<tableVars, entryVars, postVars, bufVars, sweepVars, notifVars, opVars, nsVars>>

\* the second ensureLogsTTL: the callback of setConfig's getConfig
ensureLogsTTLAgainReadBack ==
  /\ againTtlPc = "readBack"
  /\ againTtlPc' = "done"
  /\ UNCHANGED <<againPc, againDdl, againRemaining, againCachePc>>
  /\ UNCHANGED lifeVars
  /\ UNCHANGED cfgVars
  /\ UNCHANGED <<tableVars, entryVars, postVars, bufVars, sweepVars, notifVars, opVars, nsVars>>

\* the second setCacheSize: the callback of getCacheSize's PRAGMA
getCacheSizeAgainCallback(err) ==
  /\ againCachePc = "getCacheSize"
  /\ againCachePc' = IF err THEN "rejected"
                     ELSE IF cacheSize < desiredSize THEN "run" ELSE "resolved"
  /\ UNCHANGED <<againPc, againDdl, againRemaining, againTtlPc>>
  /\ UNCHANGED lifeVars
  /\ UNCHANGED cfgVars
  /\ UNCHANGED <<tableVars, entryVars, postVars, bufVars, sweepVars, notifVars, opVars, nsVars>>

\* the second setCacheSize: the callback of PRAGMA cache_size = desiredSize
setCacheSizeAgainCallback(err) ==
  /\ againCachePc = "run"
  /\ IF err
       THEN againCachePc' = "rejected" /\ UNCHANGED cacheSize
       ELSE againCachePc' = "resolved" /\ cacheSize' = desiredSize
  /\ UNCHANGED <<againPc, againDdl, againRemaining, againTtlPc>>
  /\ UNCHANGED <<dbOpen, initPc, ddl, remainingQueries, definePromise, ttlPc, cachePc, isConnectionInProgress, readyEmitted, cronJobs>>
  /\ UNCHANGED cfgVars
  /\ UNCHANGED <<tableVars, entryVars, postVars, bufVars, sweepVars, notifVars, opVars, nsVars>>

\* --------------------------------------------- setConfig / deleteConfig
\* setConfig('logsTTL', v) called by the host: the upsert is handed to db.run
setConfig(o, v) ==
  /\ IsNext(opPc, o)
  /\ opPc' = [opPc EXCEPT ![o] = "run"]
  /\ opKind' = [opKind EXCEPT ![o] = "set"]
  /\ opValue' = [opValue EXCEPT ![o] = v]
  /\ UNCHANGED opOutcome
  /\ UNCHANGED <<lifeVars, cfgVars, tableVars, entryVars, postVars, bufVars, sweepVars,
                 notifVars, nsVars, againVars>>

\* the callback of setConfig's upsert: on success getConfig(key) is issued
setConfigCallback(o, err) ==
  /\ opPc[o] = "run" /\ opKind[o] = "set"
  /\ IF err
       THEN /\ opPc' = [opPc EXCEPT ![o] = "rejected"]
            /\ opOutcome' = [opOutcome EXCEPT ![o] = "dbError"]
            /\ UNCHANGED config
       ELSE /\ opPc' = [opPc EXCEPT ![o] = "readBack"]
            /\ config' = Upsert(config, "logsTTL", opValue[o])
            /\ UNCHANGED opOutcome
  /\ UNCHANGED <<opKind, opValue>>
  /\ UNCHANGED <<lifeVars, tableVars, entryVars, postVars, bufVars, sweepVars, notifVars, nsVars, againVars>>

\* the callback of setConfig's getConfig: the promise settles
setConfigReadBack(o, err) ==
  /\ opPc[o] = "readBack"
  /\ opPc' = [opPc EXCEPT ![o] = IF err THEN "rejected" ELSE "resolved"]
  /\ opOutcome' = [opOutcome EXCEPT ![o] = IF err THEN "dbError" ELSE "item"]
  /\ UNCHANGED <<opKind, opValue>>
  /\ UNCHANGED <<lifeVars, cfgVars, tableVars, entryVars, postVars, bufVars, sweepVars,
                 notifVars, nsVars, againVars>>

\* deleteConfig('logsTTL') called by the host: the DELETE is handed to db.run
deleteConfig(o) ==
  /\ IsNext(opPc, o)
  /\ opPc' = [opPc EXCEPT ![o] = "run"]
  /\ opKind' = [opKind EXCEPT ![o] = "delete"]
  /\ UNCHANGED <<opValue, opOutcome>>
  /\ UNCHANGED <<lifeVars, cfgVars, tableVars, entryVars, postVars, bufVars, sweepVars,
                 notifVars, nsVars, againVars>>

\* the callback (err, result) of deleteConfig's DELETE.  `passed` tells
\* whether the driver hands a result object to the callback as its second
\* argument; sqlite3 hands none (the row count is this.changes of the
\* statement, as deleteExpiredLogs reads it), and then result.changes throws
\* a TypeError inside the callback and the promise is never settled.
deleteConfigCallback(o, err, passed) ==
  /\ opPc[o] = "run" /\ opKind[o] = "delete"
  /\ IF err
       THEN /\ opPc' = [opPc EXCEPT ![o] = "rejected"]
            /\ opOutcome' = [opOutcome EXCEPT ![o] = "dbError"]
            /\ UNCHANGED config
       ELSE LET changes == Cardinality(ConfigItem(config, "logsTTL"))
            IN  /\ config' = config \ ConfigItem(config, "logsTTL")
                /\ IF ~passed
                     THEN /\ opPc' = [opPc EXCEPT ![o] = "thrown"]
                          /\ opOutcome' = [opOutcome EXCEPT ![o] = "TypeError"]
                     ELSE IF changes = 0
                     THEN /\ opPc' = [opPc EXCEPT ![o] = "rejected"]
                          /\ opOutcome' = [opOutcome EXCEPT ![o] = "notFound"]
                     ELSE /\ opPc' = [opPc EXCEPT ![o] = "resolved"]
                          /\ opOutcome' = [opOutcome EXCEPT ![o] = "{}"]
  /\ UNCHANGED <<opKind, opValue>>
  /\ UNCHANGED <<lifeVars, tableVars, entryVars, postVars, bufVars, sweepVars, notifVars, nsVars, againVars>>

\* ------------------------------------------------------------ postLogs
\* postLogsIssue that hands one INSERT per entry to db.run
postLogsIssuePerEntry(c) ==
  /\ pc' = [pc EXCEPT ![c] = "insert"]
  /\ inserts' = [inserts EXCEPT ![c] = @ + Len(batch'[c])]

\* the tail of postLogs once the gate is open: build the INSERT, hand it to db.run
postLogsIssue(c) ==
  /\ pc' = [pc EXCEPT ![c] = "insert"]
  /\ inserts' = [inserts EXCEPT ![c] = @ + 1]

\* postLogs without the polling loop
postLogsUngated(c, n) ==
  /\ IsNext(pc, c)
  /\ nextEntry + n <= MaxEntries + 1
  /\ batch' = [batch EXCEPT ![c] = FreshEntries(nextEntry, n)]
  /\ nextEntry' = nextEntry + n
  /\ postLogsIssue(c)
  /\ UNCHANGED <<waited, insertErr>>
  /\ UNCHANGED <<lifeVars, cfgVars, tableVars, bufVars, sweepVars, notifVars, opVars, nsVars, againVars>>

\* postLogs(logEntries) up to its first await
postLogs(c, n) ==
  /\ IsNext(pc, c)
  /\ nextEntry + n <= MaxEntries + 1
  /\ batch' = [batch EXCEPT ![c] = FreshEntries(nextEntry, n)]
  /\ nextEntry' = nextEntry + n
  /\ IF isConnectionInProgress
       THEN /\ pc' = [pc EXCEPT ![c] = "poll"]
            /\ waited' = [waited EXCEPT ![c] = TRUE]
            /\ UNCHANGED inserts
       ELSE /\ postLogsIssue(c)
            /\ UNCHANGED waited
  /\ UNCHANGED insertErr
  /\ UNCHANGED <<lifeVars, cfgVars, tableVars, bufVars, sweepVars, notifVars, opVars, nsVars, againVars>>

\* postLogs(logEntries) up to its first await, called with the entries of an
\* earlier call d (a delivery that is repeated)
postLogsAgain(c, d) ==
  /\ IsNext(pc, c)
  /\ pc[d] # "idle" /\ batch[d] # <<>>
  /\ batch' = [batch EXCEPT ![c] = batch[d]]
  /\ IF isConnectionInProgress
       THEN /\ pc' = [pc EXCEPT ![c] = "poll"]
            /\ waited' = [waited EXCEPT ![c] = TRUE]
            /\ UNCHANGED inserts
       ELSE /\ postLogsIssue(c)
            /\ UNCHANGED waited
  /\ UNCHANGED insertErr
  /\ UNCHANGED <<lifeVars, cfgVars, tableVars, entryVars, bufVars, sweepVars, notifVars, opVars, nsVars, againVars>>

\* postLogsPoll of a loop that never tests the gate again
postLogsPollStuck(c) ==
  /\ pc[c] = "poll"
  /\ UNCHANGED <<pc, inserts>>
  /\ UNCHANGED <<batch, waited, insertErr>>
  /\ UNCHANGED <<lifeVars, cfgVars, tableVars, entryVars, bufVars, sweepVars, notifVars, opVars, nsVars, againVars>>

\* the 100 ms timer of the polling loop fires
postLogsPoll(c) ==
  /\ pc[c] = "poll"
  /\ IF isConnectionInProgress
       THEN UNCHANGED <<pc, inserts>>
       ELSE postLogsIssue(c)
  /\ UNCHANGED <<batch, waited, insertErr>>
  /\ UNCHANGED <<lifeVars, cfgVars, tableVars, entryVars, bufVars, sweepVars, notifVars, opVars, nsVars, againVars>>

\* postLogsCallback on a table whose id is a plain rowid (no AUTOINCREMENT):
\* the ids follow the largest id that is in the table now
postLogsCallbackRowid(c, err) ==
  /\ pc[c] = "insert"
  /\ (batch[c] = <<>>) => err
  /\ insertErr' = [insertErr EXCEPT ![c] = err]
  /\ IF err
       THEN /\ pc' = [pc EXCEPT ![c] = "rejected"]
            /\ UNCHANGED <<logs, nextId>>
       ELSE /\ pc' = [pc EXCEPT ![c] = "resolved"]
            /\ LET top == IF logs = {} THEN 0
                          ELSE (CHOOSE r \in logs : \A q \in logs : q.id <= r.id).id
               IN  logs' = logs \cup InsertedRows(batch[c], top + 1, now)
            /\ nextId' = nextId + Len(batch[c])
  /\ UNCHANGED <<now, batch, waited, inserts>>
  /\ UNCHANGED <<lifeVars, cfgVars, entryVars, bufVars, sweepVars, notifVars, opVars, nsVars, againVars>>

\* postLogsCallback of an INSERT that keeps the rows before the failing one
postLogsCallbackPartial(c, err) ==
  /\ pc[c] = "insert"
  /\ (batch[c] = <<>>) => err
  /\ insertErr' = [insertErr EXCEPT ![c] = err]
  /\ IF err
       THEN /\ pc' = [pc EXCEPT ![c] = "rejected"]
            /\ LET kept == IF batch[c] = <<>> THEN <<>> ELSE SubSeq(batch[c], 1, 1)
               IN  /\ logs' = logs \cup InsertedRows(kept, nextId, now)
                   /\ nextId' = nextId + Len(kept)
       ELSE /\ pc' = [pc EXCEPT ![c] = "resolved"]
            /\ logs' = logs \cup InsertedRows(batch[c], nextId, now)
            /\ nextId' = nextId + Len(batch[c])
  /\ UNCHANGED <<now, batch, waited, inserts>>
  /\ UNCHANGED <<lifeVars, cfgVars, entryVars, bufVars, sweepVars, notifVars, opVars, nsVars, againVars>>

\* postLogsCallback that hands a failed INSERT to db.run again
postLogsCallbackRetry(c, err) ==
  /\ pc[c] = "insert"
  /\ (batch[c] = <<>>) => err
  /\ insertErr' = [insertErr EXCEPT ![c] = insertErr[c] \/ err]
  /\ IF err
       THEN /\ pc' = [pc EXCEPT ![c] = IF insertErr[c] THEN "rejected" ELSE "insert"]
            /\ inserts' = [inserts EXCEPT ![c] = IF insertErr[c] THEN @ ELSE @ + 1]
            /\ UNCHANGED <<logs, nextId>>
       ELSE /\ pc' = [pc EXCEPT ![c] = "resolved"]
            /\ logs' = logs \cup InsertedRows(batch[c], nextId, now)
            /\ nextId' = nextId + Len(batch[c])
            /\ UNCHANGED inserts
  /\ UNCHANGED <<now, batch, waited>>
  /\ UNCHANGED <<lifeVars, cfgVars, entryVars, bufVars, sweepVars, notifVars, opVars, nsVars, againVars>>

\* the callback of the INSERT.  An INSERT with an empty VALUES list is a
\* syntax error, so an empty batch can only fail.
postLogsCallback(c, err) ==
  /\ pc[c] = "insert"
  /\ (batch[c] = <<>>) => err
  /\ insertErr' = [insertErr EXCEPT ![c] = err]
  /\ IF err
       THEN /\ pc' = [pc EXCEPT ![c] = "rejected"]
            /\ UNCHANGED <<logs, nextId>>
       ELSE /\ pc' = [pc EXCEPT ![c] = "resolved"]
            /\ logs' = logs \cup InsertedRows(batch[c], nextId, now)
            /\ nextId' = nextId + Len(batch[c])
  /\ UNCHANGED <<now, batch, waited, inserts>>
  /\ UNCHANGED <<lifeVars, cfgVars, entryVars, bufVars, sweepVars, notifVars, opVars, nsVars, againVars>>

\* ------------------------------------------- pending buffer and flushLogs
\* The buffering front of the adapter (spec 4.1).
\* flushLogsStart that copies the buffer and leaves it in place
flushLogsStartCopy(f, buffer) ==
  /\ flushBatch' = [flushBatch EXCEPT ![f] = buffer]
  /\ pendingLogs' = buffer
  /\ drained' = Append(drained, f)
  /\ flushPc' = [flushPc EXCEPT ![f] =
       IF buffer = <<>> THEN "resolved"
       ELSE IF isConnectionInProgress THEN "poll" ELSE "insert"]

\* the part of flushLogs that runs in the caller's turn: swap the buffer for
\* an empty one; an empty batch ends the flush; otherwise wait for the schema
\* gate, or hand the INSERT to db.run when it is already open
flushLogsStart(f, buffer) ==
  /\ flushBatch' = [flushBatch EXCEPT ![f] = buffer]
  /\ pendingLogs' = <<>>
  /\ drained' = Append(drained, f)
  /\ flushPc' = [flushPc EXCEPT ![f] =
       IF buffer = <<>> THEN "resolved"
       ELSE IF isConnectionInProgress THEN "poll" ELSE "insert"]

\* flushLogs() called by the periodic timer or by the host
flushLogs(f) ==
  /\ IsNext(flushPc, f)
  /\ flushLogsStart(f, pendingLogs)
  /\ UNCHANGED <<appended, flushErr>>
  /\ UNCHANGED <<lifeVars, cfgVars, tableVars, entryVars, postVars, sweepVars, notifVars, opVars, nsVars, againVars>>

\* appendLogs(entries): push the entries; at batchSize or more, start a flush
\* without waiting for it
appendLogs(n) ==
  /\ nextEntry + n <= MaxEntries + 1
  /\ nextEntry' = nextEntry + n
  /\ appended' = appended \o FreshEntries(nextEntry, n)
  /\ LET buffer == pendingLogs \o FreshEntries(nextEntry, n)
     IN  IF Len(buffer) >= batchSize
           THEN \E f \in Flushes : IsNext(flushPc, f) /\ flushLogsStart(f, buffer)
           ELSE /\ pendingLogs' = buffer
                /\ UNCHANGED <<flushPc, flushBatch, drained>>
  /\ UNCHANGED flushErr
  /\ UNCHANGED <<lifeVars, cfgVars, tableVars, postVars, sweepVars, notifVars, opVars, nsVars, againVars>>

\* the backoff timer of a waiting flush fires
flushLogsPoll(f) ==
  /\ flushPc[f] = "poll"
  /\ flushPc' = [flushPc EXCEPT ![f] = IF isConnectionInProgress THEN "poll" ELSE "insert"]
  /\ UNCHANGED <<pendingLogs, appended, flushBatch, flushErr, drained>>
  /\ UNCHANGED <<lifeVars, cfgVars, tableVars, entryVars, postVars, sweepVars, notifVars, opVars, nsVars, againVars>>

\* the callback of the flush's INSERT: on an error the flush fails and the
\* batch is dropped
flushLogsCallback(f, err) ==
  /\ flushPc[f] = "insert"
  /\ flushErr' = [flushErr EXCEPT ![f] = err]
  /\ IF err
       THEN /\ flushPc' = [flushPc EXCEPT ![f] = "rejected"]
            /\ UNCHANGED <<logs, nextId>>
       ELSE /\ flushPc' = [flushPc EXCEPT ![f] = "resolved"]
            /\ logs' = logs \cup InsertedRows(flushBatch[f], nextId, now)
            /\ nextId' = nextId + Len(flushBatch[f])
  /\ UNCHANGED <<now, pendingLogs, appended, flushBatch, drained>>
  /\ UNCHANGED <<lifeVars, cfgVars, entryVars, postVars, sweepVars, notifVars, opVars, nsVars, againVars>>

\* ---------------------------------------------------- deleteExpiredLogs
logsTTLDefault == DefaultTTLDays * TicksPerDay

\* the rows the DELETE's subquery selects from: timestamp < ?
Expired(rows, cutoff) == {r \in rows : TextLess(r.ts, cutoff)}

\* Chunks of a DELETE whose subquery has no WHERE clause
ChunksAnyRow(rows, cutoff, n) ==
  {v \in SUBSET rows : Cardinality(v) = IF Cardinality(rows) < n THEN Cardinality(rows) ELSE n}

\* the sets of rows one DELETE ... WHERE id IN (SELECT ... LIMIT n) may
\* remove: the subquery has no ORDER BY, so any n of the expired rows
Chunks(rows, cutoff, n) ==
  LET e == Expired(rows, cutoff)
  IN  {v \in SUBSET e : Cardinality(v) = IF Cardinality(e) < n THEN Cardinality(e) ELSE n}

\* sweepCatchFinally that throws the caught error again
sweepCatchRethrow(s, caught) ==
  /\ sweepErrors' = [sweepErrors EXCEPT ![s] = @ + (IF caught THEN 1 ELSE 0)]
  /\ deleteExpiredLogsRunning' = FALSE
  /\ sweepPc' = [sweepPc EXCEPT ![s] = "returned"]
  /\ sweepOutcome' = [sweepOutcome EXCEPT ![s] = IF caught THEN "rejected" ELSE "resolved"]

\* sweepCatchFinally that clears the flag at the end of the try block only
sweepCatchNoFinally(s, caught) ==
  /\ sweepErrors' = [sweepErrors EXCEPT ![s] = @ + (IF caught THEN 1 ELSE 0)]
  /\ deleteExpiredLogsRunning' = (caught /\ deleteExpiredLogsRunning)
  /\ sweepPc' = [sweepPc EXCEPT ![s] = "returned"]
  /\ sweepOutcome' = [sweepOutcome EXCEPT ![s] = "resolved"]

\* catch (err) { console.error(err) } finally { flag = false }, and the return
sweepCatchFinally(s, caught) ==
  /\ sweepErrors' = [sweepErrors EXCEPT ![s] = @ + (IF caught THEN 1 ELSE 0)]
  /\ deleteExpiredLogsRunning' = FALSE
  /\ sweepPc' = [sweepPc EXCEPT ![s] = "returned"]
  /\ sweepOutcome' = [sweepOutcome EXCEPT ![s] = "resolved"]

\* the body of the do-loop up to its await: hand the DELETE to db.run
sweepIssueDelete(s) ==
  /\ sweepPc' = [sweepPc EXCEPT ![s] = "delete"]
  /\ sweepQueries' = [sweepQueries EXCEPT ![s] = IF @ < MaxCount THEN @ + 1 ELSE @]

\* deleteExpiredLogs without the test of the flag
deleteExpiredLogsUnguarded(s) ==
  /\ IsNext(sweepPc, s)
  /\ deleteExpiredLogsRunning' = TRUE
  /\ sweepPc' = [sweepPc EXCEPT ![s] = "getConfig"]
  /\ sweepQueries' = [sweepQueries EXCEPT ![s] = IF @ < MaxCount THEN @ + 1 ELSE @]
  /\ UNCHANGED <<sweepOutcome, sweepSkipped>>
  /\ UNCHANGED <<expirationTime, deletedRowCount, sweepErrors, sweepReadErr, sweepChunks>>
  /\ UNCHANGED <<lifeVars, cfgVars, tableVars, entryVars, postVars, bufVars, notifVars, opVars, nsVars, againVars>>

\* deleteExpiredLogs with the test of the flag inside the try block, so that
\* the early return runs the finally block
deleteExpiredLogsSkipInTry(s) ==
  /\ IsNext(sweepPc, s)
  /\ IF deleteExpiredLogsRunning
       THEN /\ sweepPc' = [sweepPc EXCEPT ![s] = "returned"]
            /\ sweepOutcome' = [sweepOutcome EXCEPT ![s] = "resolved"]
            /\ sweepSkipped' = [sweepSkipped EXCEPT ![s] = TRUE]
            /\ deleteExpiredLogsRunning' = FALSE
            /\ UNCHANGED sweepQueries
       ELSE /\ deleteExpiredLogsRunning' = TRUE
            /\ sweepPc' = [sweepPc EXCEPT ![s] = "getConfig"]
            /\ sweepQueries' = [sweepQueries EXCEPT ![s] = IF @ < MaxCount THEN @ + 1 ELSE @]
            /\ UNCHANGED <<sweepOutcome, sweepSkipped>>
  /\ UNCHANGED <<expirationTime, deletedRowCount, sweepErrors, sweepReadErr, sweepChunks>>
  /\ UNCHANGED <<lifeVars, cfgVars, tableVars, entryVars, postVars, bufVars, notifVars, opVars, nsVars, againVars>>

\* deleteExpiredLogs() up to its first await, called by the cron job or by
\* the host
deleteExpiredLogs(s) ==
  /\ IsNext(sweepPc, s)
  /\ IF deleteExpiredLogsRunning
       THEN /\ sweepPc' = [sweepPc EXCEPT ![s] = "returned"]
            /\ sweepOutcome' = [sweepOutcome EXCEPT ![s] = "resolved"]
            /\ sweepSkipped' = [sweepSkipped EXCEPT ![s] = TRUE]
            /\ UNCHANGED <<deleteExpiredLogsRunning, sweepQueries>>
       ELSE /\ deleteExpiredLogsRunning' = TRUE
            /\ sweepPc' = [sweepPc EXCEPT ![s] = "getConfig"]
            /\ sweepQueries' = [sweepQueries EXCEPT ![s] = IF @ < MaxCount THEN @ + 1 ELSE @]
            /\ UNCHANGED <<sweepOutcome, sweepSkipped>>
  /\ UNCHANGED <<expirationTime, deletedRowCount, sweepErrors, sweepReadErr, sweepChunks>>
  /\ UNCHANGED <<lifeVars, cfgVars, tableVars, entryVars, postVars, bufVars, notifVars, opVars, nsVars, againVars>>

\* the callback of getConfig('logsTTL'): the TTL, the cutoff, the first DELETE.
\* toISOString throws a RangeError on an invalid date (a TTL that is NaN).
deleteExpiredLogsConfig(s, err) ==
  /\ sweepPc[s] = "getConfig"
  /\ LET item == ConfigItem(config, "logsTTL")
         value == IF item = {} THEN <<>> ELSE (CHOOSE r \in item : TRUE).value
         logsTTL == IF value # <<>> THEN parseInt(value)
                    ELSE [nan |-> FALSE, val |-> logsTTLDefault]
     IN  IF err \/ logsTTL.nan
           THEN /\ sweepCatchFinally(s, TRUE)
                /\ UNCHANGED <<expirationTime, sweepQueries>>
           ELSE /\ expirationTime' = [expirationTime EXCEPT ![s] = toISOString(now - logsTTL.val)]
                /\ sweepIssueDelete(s)
                /\ UNCHANGED <<deleteExpiredLogsRunning, sweepErrors, sweepOutcome>>
  /\ sweepReadErr' = [sweepReadErr EXCEPT ![s] = err]
  /\ UNCHANGED <<deletedRowCount, sweepSkipped, sweepChunks>>
  /\ UNCHANGED <<lifeVars, cfgVars, tableVars, entryVars, postVars, bufVars, notifVars, opVars, nsVars, againVars>>

\* deleteExpiredLogsDelete that leaves the loop at once when no row was deleted
deleteExpiredLogsDeleteBreak(s, err) ==
  /\ sweepPc[s] = "delete"
  /\ IF err
       THEN /\ sweepCatchFinally(s, TRUE)
            /\ UNCHANGED <<logs, deletedRowCount, sweepChunks>>
       ELSE \E v \in Chunks(logs, expirationTime[s], ChunkLimit) :
              /\ logs' = logs \ v
              /\ deletedRowCount' = [deletedRowCount EXCEPT ![s] = Cardinality(v)]
              /\ sweepChunks' = [sweepChunks EXCEPT ![s] =
                                   IF Len(@) < MaxCount THEN Append(@, Cardinality(v)) ELSE @]
              /\ IF Cardinality(v) > 0
                   THEN /\ sweepPc' = [sweepPc EXCEPT ![s] = "sleep"]
                        /\ UNCHANGED <<deleteExpiredLogsRunning, sweepErrors, sweepOutcome>>
                   ELSE sweepCatchFinally(s, FALSE)
  /\ UNCHANGED <<nextId, now, expirationTime, sweepQueries, sweepSkipped, sweepReadErr>>
  /\ UNCHANGED <<lifeVars, cfgVars, entryVars, postVars, bufVars, notifVars, opVars, nsVars, againVars>>

\* deleteExpiredLogsDelete that goes round the loop without the pause
deleteExpiredLogsDeleteNoPause(s, err) ==
  /\ sweepPc[s] = "delete"
  /\ IF err
       THEN /\ sweepCatchFinally(s, TRUE)
            /\ UNCHANGED <<logs, deletedRowCount, sweepChunks, sweepQueries>>
       ELSE \E v \in Chunks(logs, expirationTime[s], ChunkLimit) :
              /\ logs' = logs \ v
              /\ deletedRowCount' = [deletedRowCount EXCEPT ![s] = Cardinality(v)]
              /\ sweepChunks' = [sweepChunks EXCEPT ![s] =
                                   IF Len(@) < MaxCount THEN Append(@, Cardinality(v)) ELSE @]
              /\ IF Cardinality(v) > 0
                   THEN /\ sweepIssueDelete(s)
                        /\ UNCHANGED <<deleteExpiredLogsRunning, sweepErrors, sweepOutcome>>
                   ELSE /\ sweepCatchFinally(s, FALSE)
                        /\ UNCHANGED sweepQueries
  /\ UNCHANGED <<nextId, now, expirationTime, sweepSkipped, sweepReadErr>>
  /\ UNCHANGED <<lifeVars, cfgVars, entryVars, postVars, bufVars, notifVars, opVars, nsVars, againVars>>

\* deleteExpiredLogsDelete that logs a failed DELETE and issues it again
deleteExpiredLogsDeleteRetry(s, err) ==
  /\ sweepPc[s] = "delete"
  /\ IF err
       THEN /\ sweepErrors' = [sweepErrors EXCEPT ![s] = IF @ < MaxCount THEN @ + 1 ELSE @]
            /\ sweepIssueDelete(s)
            /\ UNCHANGED <<logs, deletedRowCount, sweepChunks, deleteExpiredLogsRunning,
                           sweepOutcome>>
       ELSE \E v \in Chunks(logs, expirationTime[s], ChunkLimit) :
              /\ logs' = logs \ v
              /\ deletedRowCount' = [deletedRowCount EXCEPT ![s] = Cardinality(v)]
              /\ sweepChunks' = [sweepChunks EXCEPT ![s] =
                                   IF Len(@) < MaxCount THEN Append(@, Cardinality(v)) ELSE @]
              /\ sweepPc' = [sweepPc EXCEPT ![s] = "sleep"]
              /\ UNCHANGED <<deleteExpiredLogsRunning, sweepErrors, sweepOutcome, sweepQueries>>
  /\ UNCHANGED <<nextId, now, expirationTime, sweepSkipped, sweepReadErr>>
  /\ UNCHANGED <<lifeVars, cfgVars, entryVars, postVars, bufVars, notifVars, opVars, nsVars, againVars>>

\* the callback of the DELETE: this.changes rows are gone; then the 10 s pause
deleteExpiredLogsDelete(s, err) ==
  /\ sweepPc[s] = "delete"
  /\ IF err
       THEN /\ sweepCatchFinally(s, TRUE)
            /\ UNCHANGED <<logs, deletedRowCount, sweepChunks>>
       ELSE \E v \in Chunks(logs, expirationTime[s], ChunkLimit) :
              /\ logs' = logs \ v
              /\ deletedRowCount' = [deletedRowCount EXCEPT ![s] = Cardinality(v)]
              /\ sweepChunks' = [sweepChunks EXCEPT ![s] =
                                   IF Len(@) < MaxCount THEN Append(@, Cardinality(v)) ELSE @]
              /\ sweepPc' = [sweepPc EXCEPT ![s] = "sleep"]
              /\ UNCHANGED <<deleteExpiredLogsRunning, sweepErrors, sweepOutcome>>
  /\ UNCHANGED <<nextId, now, expirationTime, sweepQueries, sweepSkipped, sweepReadErr>>
  /\ UNCHANGED <<lifeVars, cfgVars, entryVars, postVars, bufVars, notifVars, opVars, nsVars, againVars>>

\* deleteExpiredLogsWake of a loop that ends at the first chunk that is not full
deleteExpiredLogsWakeWhileFull(s) ==
  /\ sweepPc[s] = "sleep"
  /\ IF deletedRowCount[s] >= ChunkLimit
       THEN /\ sweepIssueDelete(s)
            /\ UNCHANGED <<deleteExpiredLogsRunning, sweepErrors, sweepOutcome>>
       ELSE /\ sweepCatchFinally(s, FALSE)
            /\ UNCHANGED sweepQueries
  /\ UNCHANGED <<expirationTime, deletedRowCount, sweepSkipped, sweepReadErr, sweepChunks>>
  /\ UNCHANGED <<lifeVars, cfgVars, tableVars, entryVars, postVars, bufVars, notifVars, opVars, nsVars, againVars>>

\* deleteExpiredLogsWake of a sweep that runs its loop body once
deleteExpiredLogsWakeOnce(s) ==
  /\ sweepPc[s] = "sleep"
  /\ sweepCatchFinally(s, FALSE)
  /\ UNCHANGED sweepQueries
  /\ UNCHANGED <<expirationTime, deletedRowCount, sweepSkipped, sweepReadErr, sweepChunks>>
  /\ UNCHANGED <<lifeVars, cfgVars, tableVars, entryVars, postVars, bufVars, notifVars, opVars, nsVars, againVars>>

\* deleteExpiredLogsWake of a pause whose promise is never resolved: the
\* timer fires and the loop stays where it is
deleteExpiredLogsWakeNever(s) ==
  /\ sweepPc[s] = "sleep"
  /\ UNCHANGED <<deleteExpiredLogsRunning, sweepPc, sweepQueries, sweepErrors, sweepOutcome>>
  /\ UNCHANGED <<expirationTime, deletedRowCount, sweepSkipped, sweepReadErr, sweepChunks>>
  /\ UNCHANGED <<lifeVars, cfgVars, tableVars, entryVars, postVars, bufVars, notifVars, opVars, nsVars, againVars>>

\* deleteExpiredLogsWake of a loop that reads the TTL again in every round
deleteExpiredLogsWakeReread(s) ==
  /\ sweepPc[s] = "sleep"
  /\ IF deletedRowCount[s] > 0
       THEN /\ sweepIssueDelete(s)
            /\ LET item == ConfigItem(config, "logsTTL")
                   logsTTL == IF item = {} THEN [nan |-> FALSE, val |-> logsTTLDefault]
                              ELSE parseInt((CHOOSE r \in item : TRUE).value)
               IN  expirationTime' = [expirationTime EXCEPT ![s] =
                                        toISOString(now - logsTTL.val)]
            /\ UNCHANGED <<deleteExpiredLogsRunning, sweepErrors, sweepOutcome>>
       ELSE /\ sweepCatchFinally(s, FALSE)
            /\ UNCHANGED <<sweepQueries, expirationTime>>
  /\ UNCHANGED <<deletedRowCount, sweepSkipped, sweepReadErr, sweepChunks>>
  /\ UNCHANGED <<lifeVars, cfgVars, tableVars, entryVars, postVars, bufVars, notifVars, opVars, nsVars, againVars>>

\* the 10 s timer fires: while (deletedRowCount > 0) goes round again,
\* otherwise the finally block clears the flag
deleteExpiredLogsWake(s) ==
  /\ sweepPc[s] = "sleep"
  /\ IF deletedRowCount[s] > 0
       THEN /\ sweepIssueDelete(s)
            /\ UNCHANGED <<deleteExpiredLogsRunning, sweepErrors, sweepOutcome>>
       ELSE /\ sweepCatchFinally(s, FALSE)
            /\ UNCHANGED sweepQueries
  /\ UNCHANGED <<expirationTime, deletedRowCount, sweepSkipped, sweepReadErr, sweepChunks>>
  /\ UNCHANGED <<lifeVars, cfgVars, tableVars, entryVars, postVars, bufVars, notifVars, opVars, nsVars, againVars>>

\* ------------------------------------------------ insertNotificationItem
\* The notification transaction (spec 4.3): BEGIN, read the most recent row of
\* the fingerprint, INSERT the new row, count today's rows of the fingerprint,
\* COMMIT; an error at any step rolls the transaction back and is thrown.
DateOf(t) == t \div TicksPerDay
InProgress(n) == nPc[n] \in {"begin", "read", "insert", "count", "commit", "rollback"}
RowsOf(fp) == {r \in notifications : r.fp = fp}

\* ORDER BY created_at DESC LIMIT 1: the latest row; rows created within one
\* tick of the clock are told apart by the order of their insertion
MostRecent(rows) ==
  IF rows = {} THEN {}
  ELSE {CHOOSE r \in rows :
          \A q \in rows :
            \/ TextLess(q.created_at, r.created_at)
            \/ q.created_at = r.created_at /\ q.id <= r.id}

\* the rows of today: created_at in [start of today, start of tomorrow)
CountToday(rows, t) == Cardinality({r \in rows : r.created_at[1] = DateOf(t)})

\* insertNotificationItem(notification) up to its first await: BEGIN is issued
insertNotificationItem(n, fp) ==
  /\ IsNext(nPc, n)
  /\ Cardinality({m \in Notifs : InProgress(m)}) < MaxOpen
  /\ nPc' = [nPc EXCEPT ![n] = "begin"]
  /\ nFp' = [nFp EXCEPT ![n] = fp]
  /\ nDate' = [nDate EXCEPT ![n] = DateOf(now)]
  /\ LET others == {m \in Notifs : m # n /\ InProgress(m) /\ nFp[m] = fp}
     IN  nOverlapped' = [m \in Notifs |->
                           IF m \in others \/ (m = n /\ others # {}) THEN TRUE
                           ELSE nOverlapped[m]]
  /\ nBefore' = [nBefore EXCEPT ![n] = Cardinality(RowsOf(fp))]
  /\ UNCHANGED <<notifications, nextNotifId, previous, todayCount, nInserted, nCrossedDay>>
  /\ UNCHANGED <<lifeVars, cfgVars, tableVars, entryVars, postVars, bufVars, sweepVars, opVars, nsVars, againVars>>

\* notificationStep with a count that leaves out the row just inserted
notificationStepCountOthers(n) ==
  CASE nPc[n] = "begin" ->
         /\ nPc' = [nPc EXCEPT ![n] = "read"]
         /\ UNCHANGED <<notifications, nextNotifId, previous, todayCount, nInserted>>
    [] nPc[n] = "read" ->
         /\ previous' = [previous EXCEPT ![n] = MostRecent(RowsOf(nFp[n]))]
         /\ nPc' = [nPc EXCEPT ![n] = "insert"]
         /\ UNCHANGED <<notifications, nextNotifId, todayCount, nInserted>>
    [] nPc[n] = "insert" ->
         /\ LET row == [id |-> nextNotifId, fp |-> nFp[n],
                        created_at |-> CURRENT_TIMESTAMP(now)]
            IN  /\ notifications' = notifications \cup {row}
                /\ nInserted' = [nInserted EXCEPT ![n] = {row}]
         /\ nextNotifId' = nextNotifId + 1
         /\ nPc' = [nPc EXCEPT ![n] = "count"]
         /\ UNCHANGED <<previous, todayCount>>
    [] nPc[n] = "count" ->
         /\ todayCount' = [todayCount EXCEPT ![n] =
                             CountToday(RowsOf(nFp[n]) \ nInserted[n], now)]
         /\ nPc' = [nPc EXCEPT ![n] = "commit"]
         /\ UNCHANGED <<notifications, nextNotifId, previous, nInserted>>
    [] nPc[n] = "commit" ->
         /\ nPc' = [nPc EXCEPT ![n] = "resolved"]
         /\ UNCHANGED <<notifications, nextNotifId, previous, todayCount, nInserted>>

\* the statement at the current step of the transaction, on success
notificationStep(n) ==
  CASE nPc[n] = "begin" ->
         /\ nPc' = [nPc EXCEPT ![n] = "read"]
         /\ UNCHANGED <<notifications, nextNotifId, previous, todayCount, nInserted>>
    [] nPc[n] = "read" ->
         /\ previous' = [previous EXCEPT ![n] = MostRecent(RowsOf(nFp[n]))]
         /\ nPc' = [nPc EXCEPT ![n] = "insert"]
         /\ UNCHANGED <<notifications, nextNotifId, todayCount, nInserted>>
    [] nPc[n] = "insert" ->
         /\ LET row == [id |-> nextNotifId, fp |-> nFp[n],
                        created_at |-> CURRENT_TIMESTAMP(now)]
            IN  /\ notifications' = notifications \cup {row}
                /\ nInserted' = [nInserted EXCEPT ![n] = {row}]
         /\ nextNotifId' = nextNotifId + 1
         /\ nPc' = [nPc EXCEPT ![n] = "count"]
         /\ UNCHANGED <<previous, todayCount>>
    [] nPc[n] = "count" ->
         /\ todayCount' = [todayCount EXCEPT ![n] = CountToday(RowsOf(nFp[n]), now)]
         /\ nPc' = [nPc EXCEPT ![n] = "commit"]
         /\ UNCHANGED <<notifications, nextNotifId, previous, nInserted>>
    [] nPc[n] = "commit" ->
         /\ nPc' = [nPc EXCEPT ![n] = "resolved"]
         /\ UNCHANGED <<notifications, nextNotifId, previous, todayCount, nInserted>>

\* the callback of the statement a transaction is waiting for
notificationCallback(n, err) ==
  /\ nPc[n] \in {"begin", "read", "insert", "count", "commit"}
  /\ IF err
       THEN /\ nPc' = [nPc EXCEPT ![n] = "rollback"]
            /\ UNCHANGED <<notifications, nextNotifId, previous, todayCount, nInserted>>
       ELSE notificationStep(n)
  /\ UNCHANGED <<nFp, nDate, nOverlapped, nCrossedDay, nBefore>>
  /\ UNCHANGED <<lifeVars, cfgVars, tableVars, entryVars, postVars, bufVars, sweepVars, opVars, nsVars, againVars>>

\* notificationRollback that throws the error and leaves the inserted row
notificationRollbackKeep(n) ==
  /\ nPc[n] = "rollback"
  /\ nPc' = [nPc EXCEPT ![n] = "rejected"]
  /\ UNCHANGED <<notifications, nInserted>>
  /\ UNCHANGED <<nextNotifId, nFp, previous, todayCount, nDate, nOverlapped, nCrossedDay,
                 nBefore>>
  /\ UNCHANGED <<lifeVars, cfgVars, tableVars, entryVars, postVars, bufVars, sweepVars, opVars, nsVars, againVars>>

\* the callback of ROLLBACK: the rows of the transaction are gone and the
\* error is thrown
notificationRollback(n) ==
  /\ nPc[n] = "rollback"
  /\ notifications' = notifications \ nInserted[n]
  /\ nInserted' = [nInserted EXCEPT ![n] = {}]
  /\ nPc' = [nPc EXCEPT ![n] = "rejected"]
  /\ UNCHANGED <<nextNotifId, nFp, previous, todayCount, nDate, nOverlapped, nCrossedDay,
                 nBefore>>
  /\ UNCHANGED <<lifeVars, cfgVars, tableVars, entryVars, postVars, bufVars, sweepVars, opVars, nsVars, againVars>>

\* the clock advances
Tick ==
  /\ now < MaxDays * TicksPerDay
  /\ now' = now + 1
  /\ nCrossedDay' = [n \in Notifs |->
                       nCrossedDay[n] \/ (InProgress(n) /\ DateOf(now + 1) # DateOf(now))]
  /\ UNCHANGED <<logs, nextId>>
  /\ UNCHANGED <<notifications, nextNotifId, nPc, nFp, previous, todayCount, nInserted,
                 nDate, nOverlapped, nBefore>>
  /\ UNCHANGED <<lifeVars, cfgVars, entryVars, postVars, bufVars, sweepVars, opVars, nsVars, againVars>>

\* ----------------------------------------- deleteExpiredNotificationItems
\* The sweep of errsole_notifications (spec 4.2): its own flag, the TTL read,
\* then rounds of SELECT ids ... LIMIT / DELETE ... WHERE id IN (ids) with a
\* pause between rounds, until a SELECT returns no id; errors are caught and
\* logged and the flag is cleared on every path.
\* the catch and finally blocks of the notification sweep, and its return
nsCatchFinally(n, caught) ==
  /\ nsErrors' = [nsErrors EXCEPT ![n] = @ + (IF caught THEN 1 ELSE 0)]
  /\ deleteExpiredNotificationItemsRunning' = FALSE
  /\ nsPc' = [nsPc EXCEPT ![n] = "returned"]

\* deleteExpiredNotificationItems with one flag for both sweeps
deleteExpiredNotificationItemsSharedFlag(n) ==
  /\ IsNext(nsPc, n)
  /\ IF deleteExpiredNotificationItemsRunning \/ deleteExpiredLogsRunning
       THEN /\ nsPc' = [nsPc EXCEPT ![n] = "skipped"]
            /\ UNCHANGED deleteExpiredNotificationItemsRunning
       ELSE /\ deleteExpiredNotificationItemsRunning' = TRUE
            /\ nsPc' = [nsPc EXCEPT ![n] = "getConfig"]
  /\ UNCHANGED <<nsCutoff, nsIds, nsErrors>>
  /\ UNCHANGED notifVars
  /\ UNCHANGED <<lifeVars, cfgVars, tableVars, entryVars, postVars, bufVars, sweepVars, opVars, againVars>>

\* deleteExpiredNotificationItems() up to its first await
deleteExpiredNotificationItems(n) ==
  /\ IsNext(nsPc, n)
  /\ IF deleteExpiredNotificationItemsRunning
       THEN /\ nsPc' = [nsPc EXCEPT ![n] = "skipped"]
            /\ UNCHANGED deleteExpiredNotificationItemsRunning
       ELSE /\ deleteExpiredNotificationItemsRunning' = TRUE
            /\ nsPc' = [nsPc EXCEPT ![n] = "getConfig"]
  /\ UNCHANGED <<nsCutoff, nsIds, nsErrors>>
  /\ UNCHANGED notifVars
  /\ UNCHANGED <<lifeVars, cfgVars, tableVars, entryVars, postVars, bufVars, sweepVars, opVars, againVars>>

\* the callback of getConfig('logsTTL'): the cutoff, the first SELECT
deleteExpiredNotificationItemsConfig(n, err) ==
  /\ nsPc[n] = "getConfig"
  /\ LET item == ConfigItem(config, "logsTTL")
         value == IF item = {} THEN <<>> ELSE (CHOOSE r \in item : TRUE).value
         logsTTL == IF value # <<>> THEN parseInt(value)
                    ELSE [nan |-> FALSE, val |-> logsTTLDefault]
     IN  IF err \/ logsTTL.nan
           THEN /\ nsCatchFinally(n, TRUE)
                /\ UNCHANGED nsCutoff
           ELSE /\ nsCutoff' = [nsCutoff EXCEPT ![n] = toISOString(now - logsTTL.val)]
                /\ nsPc' = [nsPc EXCEPT ![n] = "select"]
                /\ UNCHANGED <<deleteExpiredNotificationItemsRunning, nsErrors>>
  /\ UNCHANGED nsIds
  /\ UNCHANGED notifVars
  /\ UNCHANGED <<lifeVars, cfgVars, tableVars, entryVars, postVars, bufVars, sweepVars, opVars, againVars>>

\* the callback of the SELECT: no id ends the sweep, otherwise the DELETE of
\* the selected ids is issued
deleteExpiredNotificationItemsSelect(n, err) ==
  /\ nsPc[n] = "select"
  /\ IF err
       THEN /\ nsCatchFinally(n, TRUE)
            /\ UNCHANGED nsIds
       ELSE LET old == {r \in notifications : TextLess(r.created_at, nsCutoff[n])}
                k == IF Cardinality(old) < ChunkLimit THEN Cardinality(old) ELSE ChunkLimit
            IN  \E v \in {w \in SUBSET old : Cardinality(w) = k} :
                  /\ nsIds' = [nsIds EXCEPT ![n] = {r.id : r \in v}]
                  /\ IF v = {}
                       THEN nsCatchFinally(n, FALSE)
                       ELSE /\ nsPc' = [nsPc EXCEPT ![n] = "delete"]
                            /\ UNCHANGED <<deleteExpiredNotificationItemsRunning, nsErrors>>
  /\ UNCHANGED nsCutoff
  /\ UNCHANGED notifVars
  /\ UNCHANGED <<lifeVars, cfgVars, tableVars, entryVars, postVars, bufVars, sweepVars, opVars, againVars>>

\* the callback of the DELETE: the selected rows are gone; then the pause
deleteExpiredNotificationItemsDelete(n, err) ==
  /\ nsPc[n] = "delete"
  /\ IF err
       THEN /\ nsCatchFinally(n, TRUE)
            /\ UNCHANGED notifications
       ELSE /\ notifications' = {r \in notifications : r.id \notin nsIds[n]}
            /\ nsPc' = [nsPc EXCEPT ![n] = "sleep"]
            /\ UNCHANGED <<deleteExpiredNotificationItemsRunning, nsErrors>>
  /\ UNCHANGED <<nsCutoff, nsIds>>
  /\ UNCHANGED <<nextNotifId, nPc, nFp, previous, todayCount, nInserted, nDate, nOverlapped,
                 nCrossedDay, nBefore>>
  /\ UNCHANGED <<lifeVars, cfgVars, tableVars, entryVars, postVars, bufVars, sweepVars, opVars, againVars>>

\* the timer of the pause fires: the next SELECT is issued
deleteExpiredNotificationItemsWake(n) ==
  /\ nsPc[n] = "sleep"
  /\ nsPc' = [nsPc EXCEPT ![n] = "select"]
  /\ UNCHANGED <<deleteExpiredNotificationItemsRunning, nsCutoff, nsIds, nsErrors>>
  /\ UNCHANGED notifVars
  /\ UNCHANGED <<lifeVars, cfgVars, tableVars, entryVars, postVars, bufVars, sweepVars, opVars, againVars>>

\* ------------------------------------------------------- specification
Lifecycle ==
  \/ \E err \in BOOLEAN : constructorCallback(err)
  \/ \E q \in Queries, err \in BOOLEAN : defineTablesCallback(q, err)
  \/ \E err \in BOOLEAN : ensureLogsTTLGetCallback(err)
  \/ \E err \in BOOLEAN : ensureLogsTTLSetCallback(err)
  \/ ensureLogsTTLReadBack
  \/ \E err \in BOOLEAN : getCacheSizeCallback(err)
  \/ \E err \in BOOLEAN : setCacheSizeCallback(err)

\* the adapter of src/lib/index.js: construction, initialization, postLogs
Next ==
  \/ Lifecycle
  \/ \E c \in Calls, n \in 0..MaxBatch : postLogs(c, n)
  \/ \E c \in Calls : postLogsPoll(c)
  \/ \E c \in Calls, err \in BOOLEAN : postLogsCallback(c, err)

Spec == Init /\ [][Next]_vars

\* the adapter with callers that may deliver the same entries again
NextRedeliver ==
  \/ Next
  \/ \E c, d \in Calls : postLogsAgain(c, d)

SpecRedeliver == Init /\ [][NextRedeliver]_vars

\* the values the host gives to setConfig('logsTTL', v)
HostTTLTexts == {<<"1">>}

\* the adapter with a host that sets and deletes the logsTTL setting
NextConfig ==
  \/ Lifecycle
  \/ \E o \in Ops, v \in HostTTLTexts : setConfig(o, v)
  \/ \E o \in Ops, err \in BOOLEAN : setConfigCallback(o, err)
  \/ \E o \in Ops, err \in BOOLEAN : setConfigReadBack(o, err)
  \/ \E o \in Ops : deleteConfig(o)
  \/ \E o \in Ops, err \in BOOLEAN, passed \in BOOLEAN : deleteConfigCallback(o, err, passed)

SpecConfig == Init /\ [][NextConfig]_vars

\* the lifecycle, initialize() called a second time, and host calls of
\* setConfig and deleteConfig
InitializingAgain ==
  \/ initializeAgain
  \/ \E q \in Queries, err \in BOOLEAN : defineTablesAgainCallback(q, err)
  \/ \E err \in BOOLEAN : ensureLogsTTLAgainGetCallback(err)
  \/ \E err \in BOOLEAN : ensureLogsTTLAgainSetCallback(err)
  \/ ensureLogsTTLAgainReadBack
  \/ \E err \in BOOLEAN : getCacheSizeAgainCallback(err)
  \/ \E err \in BOOLEAN : setCacheSizeAgainCallback(err)

NextAgain ==
  \/ NextConfig
  \/ InitializingAgain

SpecAgain == Init /\ [][NextAgain]_vars

\* the 100 ms timer of a waiting postLogs call eventually fires
PostFairness == \A c \in Calls : WF_vars(postLogsPoll(c))

SpecPostFair == Spec /\ PostFairness

\* the adapter with the buffering front: construction, initialization,
\* appendLogs, flushLogs
NextBuffer ==
  \/ Lifecycle
  \/ \E n \in 0..MaxBatch : appendLogs(n)
  \/ \E f \in Flushes : flushLogs(f)
  \/ \E f \in Flushes : flushLogsPoll(f)
  \/ \E f \in Flushes, err \in BOOLEAN : flushLogsCallback(f, err)

SpecBuffer == Init /\ [][NextBuffer]_vars

\* An initialized adapter: the tables exist, 'ready' has been emitted, the
\* calls initialize started have finished; the logsTTL row is the default
\* ensureLogsTTL wrote, a value the host has set, or missing.
TTLTexts == {toString(DEFAULT_TTL), <<"1">>, <<"x">>}

Initialized ==
  /\ dbOpen = "open"
  /\ initPc = "ready"
  /\ ddl = [q \in Queries |-> "ok"]
  /\ remainingQueries = 0
  /\ definePromise = "resolved"
  /\ isConnectionInProgress = FALSE
  /\ readyEmitted = 1
  /\ cronJobs = 1
  /\ ttlPc = "done"
  /\ cachePc = "resolved"
  /\ cacheSize = desiredSize

InitSweep ==
  /\ Initialized
  /\ config \in {{}} \cup {{[key |-> "logsTTL", value |-> v]} : v \in TTLTexts}
  /\ logs = {}
  /\ nextId = 1
  /\ now = 0
  /\ nextEntry = 1
  /\ PostInit
  /\ BufInit
  /\ SweepInit
  /\ NotifInit
  /\ OpInit
  /\ NSweepInit
  /\ AgainInit

Sweeping(s) ==
  \/ deleteExpiredLogs(s)
  \/ \E err \in BOOLEAN : deleteExpiredLogsConfig(s, err)
  \/ \E err \in BOOLEAN : deleteExpiredLogsDelete(s, err)
  \/ deleteExpiredLogsWake(s)

\* the initialized adapter: postLogs, the clock, deleteExpiredLogs
NextSweep ==
  \/ \E c \in Calls, n \in 1..MaxBatch : postLogs(c, n)
  \/ \E c \in Calls, err \in BOOLEAN : postLogsCallback(c, err)
  \/ Tick
  \/ \E s \in Sweeps : Sweeping(s)

SpecSweep == InitSweep /\ [][NextSweep]_vars

\* callbacks and timers of a started sweep eventually run
SweepFairness ==
  \A s \in Sweeps :
    /\ WF_vars(\E err \in BOOLEAN : deleteExpiredLogsConfig(s, err))
    /\ WF_vars(\E err \in BOOLEAN : deleteExpiredLogsDelete(s, err))
    /\ WF_vars(deleteExpiredLogsWake(s))

SpecSweepFair == SpecSweep /\ SweepFairness

\* An initialized adapter at the end of the last day, with a TTL of one tick,
\* whose table holds n rows stamped on the first day (older than any cutoff
\* now) and k rows stamped now; nothing is inserted while it sweeps.
InitChunk ==
  /\ Initialized
  /\ config = {[key |-> "logsTTL", value |-> <<"1">>]}
  /\ now = MaxDays * TicksPerDay
  /\ \E n \in 0..MaxRows, k \in 0..1 :
       /\ logs = InsertedRows(FreshEntries(1, n), 1, 0)
                    \cup InsertedRows(FreshEntries(n + 1, k), n + 1, now)
       /\ nextId = n + k + 1
       /\ nextEntry = n + k + 1
  /\ PostInit
  /\ BufInit
  /\ SweepInit
  /\ NotifInit
  /\ OpInit
  /\ NSweepInit
  /\ AgainInit

NextChunk == \E s \in Sweeps : Sweeping(s)

SpecChunk == InitChunk /\ [][NextChunk]_vars

\* the same adapter with a host that raises the logsTTL setting with setConfig
LongTTLTexts == {<<"3">>}

NextSweepConfig ==
  \/ \E s \in Sweeps : Sweeping(s)
  \/ \E o \in Ops, v \in LongTTLTexts : setConfig(o, v)
  \/ \E o \in Ops, err \in BOOLEAN : setConfigCallback(o, err)
  \/ \E o \in Ops, err \in BOOLEAN : setConfigReadBack(o, err)

SpecSweepConfig == InitChunk /\ [][NextSweepConfig]_vars

\* An initialized adapter at the end of the last day, with a TTL of one tick,
\* whose two tables hold rows stamped on the first day; both sweeps are
\* triggered.
InitTwoSweeps ==
  /\ Initialized
  /\ config = {[key |-> "logsTTL", value |-> <<"1">>]}
  /\ now = MaxDays * TicksPerDay
  /\ \E n \in 0..ChunkLimit :
       /\ logs = InsertedRows(FreshEntries(1, n), 1, 0)
       /\ nextId = n + 1
       /\ nextEntry = n + 1
  /\ \E m \in 0..ChunkLimit :
       /\ notifications = {[id |-> i, fp |-> "a", created_at |-> CURRENT_TIMESTAMP(0)] :
                             i \in 1..m}
       /\ nextNotifId = m + 1
  /\ nPc = [n \in Notifs |-> "idle"]
  /\ nFp = [n \in Notifs |-> "a"]
  /\ previous = [n \in Notifs |-> {}]
  /\ todayCount = [n \in Notifs |-> 0]
  /\ nInserted = [n \in Notifs |-> {}]
  /\ nDate = [n \in Notifs |-> 0]
  /\ nOverlapped = [n \in Notifs |-> FALSE]
  /\ nCrossedDay = [n \in Notifs |-> FALSE]
  /\ nBefore = [n \in Notifs |-> 0]
  /\ PostInit
  /\ BufInit
  /\ SweepInit
  /\ OpInit
  /\ NSweepInit
  /\ AgainInit

NSweeping(n) ==
  \/ deleteExpiredNotificationItems(n)
  \/ \E err \in BOOLEAN : deleteExpiredNotificationItemsConfig(n, err)
  \/ \E err \in BOOLEAN : deleteExpiredNotificationItemsSelect(n, err)
  \/ \E err \in BOOLEAN : deleteExpiredNotificationItemsDelete(n, err)
  \/ deleteExpiredNotificationItemsWake(n)

NextTwoSweeps ==
  \/ \E s \in Sweeps : Sweeping(s)
  \/ \E n \in Sweeps : NSweeping(n)

SpecTwoSweeps == InitTwoSweeps /\ [][NextTwoSweeps]_vars

\* the initialized adapter: insertNotificationItem and the clock
InitNotif ==
  /\ Initialized
  /\ config = {[key |-> "logsTTL", value |-> toString(DEFAULT_TTL)]}
  /\ logs = {}
  /\ nextId = 1
  /\ now = 0
  /\ nextEntry = 1
  /\ PostInit
  /\ BufInit
  /\ SweepInit
  /\ NotifInit
  /\ OpInit
  /\ NSweepInit
  /\ AgainInit

NextNotif ==
  \/ \E n \in Notifs, fp \in Fingerprints : insertNotificationItem(n, fp)
  \/ \E n \in Notifs, err \in BOOLEAN : notificationCallback(n, err)
  \/ \E n \in Notifs : notificationRollback(n)
  \/ Tick

SpecNotif == InitNotif /\ [][NextNotif]_vars

\* ---------------------------------------------------------- properties
AllTablesCreated == \A q \in Queries : ddl[q] = "ok"
StoredEntries == {r.entry : r \in logs}

\* C1: a postLogs call has no statement in flight or completed while schema
\* setup is incomplete: its INSERT exists only in states where
\* isConnectionInProgress is false and every CREATE TABLE has succeeded, and
\* while the gate is closed every started call is still polling.
SchemaGateSafety ==
  /\ \A c \in Calls :
       pc[c] \in {"insert", "resolved", "rejected"} =>
         ~isConnectionInProgress /\ AllTablesCreated
  /\ isConnectionInProgress => logs = {}
\* a call that began while the gate was closed has stored its entries
SchemaGateWitness ==
  \E c \in Calls : waited[c] /\ pc[c] = "resolved" /\ batch[c] # <<>>

\* C2: postLogs completes in its own turn, whatever the state of the
\* database: a started call is never waiting for the gate or for a statement
\* and is never rejected.
PostLogsNeverWaitsNorFails ==
  \A c \in Calls : pc[c] \notin {"poll", "insert", "rejected"}

\* C4: when the INSERT of a postLogs call fails, the call is rejected and none
\* of its entries is in the table, then or in any later state.
FailedBatchDropped ==
  \A c \in Calls :
    insertErr[c] => pc[c] = "rejected" /\ Range(batch[c]) \cap StoredEntries = {}
\* a call was rejected with a non-empty batch and a later call has stored its own
FailedBatchWitness ==
  \E c, d \in Calls :
    /\ insertErr[c] /\ pc[c] = "rejected" /\ batch[c] # <<>>
    /\ pc[d] = "resolved" /\ batch[d] # <<>>

\* the batches of the flushes in drain order, one after the other
RECURSIVE DrainedEntries(_)
DrainedEntries(fs) ==
  IF fs = <<>> THEN <<>> ELSE flushBatch[Head(fs)] \o DrainedEntries(Tail(fs))

Running(s) == sweepPc[s] \in {"getConfig", "delete", "sleep"}

\* C5: at most one deleteExpiredLogs invocation is Running in any state, so
\* only one invocation has a DELETE in flight or pending.
SweepMutualExclusion == Cardinality({s \in Sweeps : Running(s)}) <= 1
\* a second trigger arrived while a sweep had its DELETE in flight
SweepMutualExclusionWitness ==
  \E s, t \in Sweeps : sweepPc[s] = "delete" /\ sweepPc[t] = "returned" /\ sweepSkipped[t]

\* C6: a deleteExpiredLogs call that finds the flag set returns at once: the
\* flag stays true, no table changes, it has issued no statement and logged
\* no error, it resolves, and it never runs later.
SkippedSweepIsNoOp ==
  /\ [](\A s \in Sweeps :
          sweepSkipped[s] =>
            /\ sweepPc[s] = "returned" /\ sweepOutcome[s] = "resolved"
            /\ sweepQueries[s] = 0 /\ sweepErrors[s] = 0)
  /\ [][\A s \in Sweeps :
          (sweepPc[s] = "idle" /\ sweepPc'[s] # "idle" /\ deleteExpiredLogsRunning) =>
            /\ deleteExpiredLogsRunning' /\ sweepSkipped'[s]
            /\ logs' = logs /\ config' = config /\ nextId' = nextId]_vars
\* a skipped call, after which the running sweep went on to delete rows
SkippedSweepWitness ==
  \E s, t \in Sweeps :
    sweepSkipped[t] /\ sweepPc[s] = "sleep" /\ deletedRowCount[s] > 0

\* C7: deleteExpiredLogs never rejects: an invocation that caught an error
\* (from the TTL read or from a DELETE) has logged it and resolved.
SweepNeverRejects ==
  \A s \in Sweeps :
    /\ sweepOutcome[s] # "rejected"
    /\ sweepErrors[s] > 0 => sweepPc[s] = "returned" /\ sweepOutcome[s] = "resolved"
\* one invocation failed in the TTL read, another in a DELETE
SweepNeverRejectsWitness ==
  \E s, t \in Sweeps :
    /\ sweepErrors[s] = 1 /\ sweepQueries[s] = 1
    /\ sweepErrors[t] = 1 /\ sweepQueries[t] >= 2

\* C8: the flag is true in every state in which an invocation has I/O in
\* flight or is pausing, and false in every state in which no invocation is
\* between its first I/O and its return, whichever way the invocations ended.
RunningFlagTracksSweep ==
  deleteExpiredLogsRunning <=> \E s \in Sweeps : Running(s)
\* one invocation ended on an error, another normally, and the flag is false
RunningFlagWitness ==
  \E s, t \in Sweeps :
    /\ sweepPc[s] = "returned" /\ sweepErrors[s] = 1
    /\ sweepPc[t] = "returned" /\ sweepErrors[t] = 0 /\ ~sweepSkipped[t]
    /\ ~deleteExpiredLogsRunning

\* C9: with callbacks and timers eventually firing, every invocation that is
\* Running eventually returns, and the flag is false when it does.
SweepTerminates ==
  \A s \in Sweeps :
    Running(s) ~> (sweepPc[s] = "returned" /\ ~deleteExpiredLogsRunning)
\* an invocation has returned after a chunk that deleted rows
SweepTerminatesWitness ==
  \E s \in Sweeps :
    sweepPc[s] = "returned" /\ sweepErrors[s] = 0 /\ sweepQueries[s] >= 3 /\ logs = {}

\* the invocations made before n with n's fingerprint
Earlier(n) == {m \in Notifs : m < n /\ nPc[m] # "idle" /\ nFp[m] = nFp[n]}
\* n ran on one calendar day and no invocation with its fingerprint ran during it
Undisturbed(n) == ~nOverlapped[n] /\ ~nCrossedDay[n]

\* C10: when the invocations with one fingerprint are made one after the
\* other on one UTC day and all succeed, the k-th of them returns
\* todayNotificationCount = k and, as previousNotificationItem, nothing for
\* k = 1 and the row the (k-1)-th inserted for k > 1.
NotificationCountAndPrevious ==
  \A n \in Notifs :
    ( /\ nPc[n] = "resolved" /\ Undisturbed(n)
      /\ \A m \in Earlier(n) :
           nPc[m] = "resolved" /\ Undisturbed(m) /\ nDate[m] = nDate[n] )
    => /\ todayCount[n] = Cardinality(Earlier(n)) + 1
       /\ previous[n] = IF Earlier(n) = {} THEN {}
                        ELSE nInserted[CHOOSE m \in Earlier(n) : \A k \in Earlier(n) : k <= m]
\* the third successive invocation with one fingerprint has returned
NotificationWitness ==
  \E n \in Notifs :
    /\ nPc[n] = "resolved" /\ Undisturbed(n) /\ Cardinality(Earlier(n)) = 2
    /\ \A m \in Earlier(n) : nPc[m] = "resolved" /\ Undisturbed(m) /\ nDate[m] = nDate[n]
    /\ todayCount[n] = 3

\* C11: a failure at any step of insertNotificationItem (BEGIN, the read of
\* the previous row, the INSERT, the count, COMMIT) is followed by ROLLBACK
\* and by the rejection of the call; a rejected call holds no row, and when
\* no other call with its fingerprint ran during it, the fingerprint has as
\* many rows at the rejection as it had when the call was made.
NotificationAtomic ==
  /\ [](\A n \in Notifs : nPc[n] = "rejected" => nInserted[n] = {})
  /\ [][\A n \in Notifs :
          /\ (nPc[n] \in {"begin", "read", "insert", "count", "commit"}
               /\ nPc'[n] \notin {nPc[n], "read", "insert", "count", "commit", "resolved"})
              => nPc'[n] = "rollback"
          /\ (nPc[n] = "rollback" /\ nPc'[n] # "rollback")
              => /\ nPc'[n] = "rejected"
                 /\ notifications' \cap nInserted[n] = {}
                 /\ ~nOverlapped[n] =>
                      Cardinality({r \in notifications' : r.fp = nFp[n]}) = nBefore[n]]_vars
\* the second call for a fingerprint failed after its INSERT and was rejected;
\* the row of the first call is the only one
NotificationAtomicWitness ==
  /\ nPc[1] = "resolved" /\ nPc[2] = "rejected" /\ nPc[3] = "idle"
  /\ nFp[1] = nFp[2] /\ ~nOverlapped[2] /\ nBefore[2] = 1
  /\ nextNotifId = 3
  /\ Cardinality(notifications) = 1

\* C12: once 'ready' has been emitted the logsTTL row exists and holds the
\* default TTL, so a read made at that point returns it.
DefaultTTLPresentAtReady ==
  readyEmitted > 0 =>
    ConfigItem(config, "logsTTL") = {[key |-> "logsTTL", value |-> toString(DEFAULT_TTL)]}

\* the logsTTL row is missing, or its value has no integer reading
TTLUnusable ==
  \/ ConfigItem(config, "logsTTL") = {}
  \/ \E r \in ConfigItem(config, "logsTTL") : parseInt(r.value).nan

\* C13: when the logsTTL row is missing or unparsable and the TTL read itself
\* succeeded, the sweep computes its cutoff from the default TTL and issues
\* its DELETE; it logs no error of its own making.
TTLFallbackToDefault ==
  \A s \in Sweeps :
    (sweepPc[s] \notin {"idle", "getConfig"} /\ ~sweepSkipped[s] /\ ~sweepReadErr[s]
       /\ TTLUnusable)
    => /\ expirationTime[s] \in {toISOString(t - logsTTLDefault) : t \in 0..now}
       /\ sweepQueries[s] >= 2

\* the instant a timestamp text stands for
TimeOf(text) == text[1] * TicksPerDay + text[3]

\* C14: every row that leaves errsole_logs is removed by the invocation whose
\* DELETE is in flight, and its timestamp is an instant strictly before that
\* invocation's cutoff.
RetentionSafety ==
  [][\A r \in logs \ logs' :
       \E s \in Sweeps :
         sweepPc[s] = "delete" /\ TimeOf(r.ts) < TimeOf(expirationTime[s])]_vars

\* C15: an invocation that has returned without an error (and was not
\* skipped) ended on a chunk that deleted no row, and no row of errsole_logs
\* is stamped with an instant before its cutoff, then or later.
SweepComplete ==
  \A s \in Sweeps :
    (sweepPc[s] = "returned" /\ ~sweepSkipped[s] /\ sweepErrors[s] = 0)
    => /\ deletedRowCount[s] = 0
       /\ \A r \in logs : ~(TimeOf(r.ts) < TimeOf(expirationTime[s]))
\* a sweep deleted rows, ended on an empty chunk, and a row that is not older
\* than its cutoff is still in the table
SweepCompleteWitness ==
  \E s \in Sweeps :
    /\ sweepPc[s] = "returned" /\ sweepErrors[s] = 0 /\ sweepQueries[s] >= 3
    /\ logs # {} /\ Cardinality(logs) < nextId - 1

RECURSIVE Sum(_)
Sum(seq) == IF seq = <<>> THEN 0 ELSE Head(seq) + Sum(Tail(seq))

\* an invocation that was not skipped and has returned without an error
EndedClean(s) == sweepPc[s] = "returned" /\ ~sweepSkipped[s] /\ sweepErrors[s] = 0

\* C16 (as stated): a sweep that removes N rows, N not a multiple of the chunk
\* size C, issues exactly ceil(N/C) DELETE statements.
ChunkCountIsCeiling ==
  \A s \in Sweeps :
    (EndedClean(s) /\ Sum(sweepChunks[s]) % ChunkLimit # 0)
    => Len(sweepChunks[s]) = (Sum(sweepChunks[s]) + ChunkLimit - 1) \div ChunkLimit

\* C16 (amended): with nothing inserted meanwhile, a sweep over N expired rows
\* issues ceil(N/C) DELETE statements that remove C rows each, the last of
\* them N mod C when that is not 0, and then one more DELETE that removes
\* nothing; no expired row is left.
ChunkCountWithEmptyProbe ==
  \A s \in Sweeps :
    EndedClean(s) =>
      LET ch == sweepChunks[s]
          N == Sum(ch)
      IN  /\ Len(ch) = (N + ChunkLimit - 1) \div ChunkLimit + 1
          /\ ch[Len(ch)] = 0
          /\ \A i \in 1..(Len(ch) - 1) :
               ch[i] = IF i * ChunkLimit <= N THEN ChunkLimit ELSE N % ChunkLimit
          /\ Expired(logs, expirationTime[s]) = {}
\* a sweep over a number of rows that is not a multiple of the chunk size:
\* two full chunks, a partial one, an empty one
ChunkCountWitness ==
  \E s \in Sweeps :
    /\ EndedClean(s) /\ Len(sweepChunks[s]) = 4
    /\ Sum(sweepChunks[s]) % ChunkLimit # 0
    /\ sweepChunks[s][4] = 0

\* C17: a sweep whose first DELETE finds no expired row removes nothing with
\* it (no table changes in that step), and ends after that one DELETE: it has
\* issued the TTL read and one DELETE, which deleted 0 rows.
EmptySweepIsOneChunk ==
  /\ [](\A s \in Sweeps :
          (EndedClean(s) /\ sweepChunks[s][1] = 0)
          => sweepChunks[s] = <<0>> /\ sweepQueries[s] = 2)
  /\ [][\A s \in Sweeps :
          (sweepPc[s] = "delete" /\ sweepPc'[s] = "sleep"
             /\ Expired(logs, expirationTime[s]) = {})
          => /\ sweepChunks'[s] = Append(sweepChunks[s], 0)
             /\ logs' = logs /\ config' = config /\ notifications' = notifications]_vars
\* a sweep over a table that holds rows, none of them expired, has ended
EmptySweepWitness ==
  \E s \in Sweeps : EndedClean(s) /\ sweepChunks[s] = <<0>> /\ logs # {}

NoInsertBelowBatchSize ==
  (1 < nextEntry /\ nextEntry - 1 < batchSize) => \A c \in Calls : inserts[c] = 0

RedeliveryIdempotent ==
  \A r1, r2 \in logs : r1.entry = r2.entry => r1 = r2

\* C22: a postLogs call with no entries issues no statement and reports no
\* error: it is never waiting for the database and never rejected.
EmptyBatchIsNoOp ==
  \A c \in Calls :
    (pc[c] # "idle" /\ batch[c] = <<>>) =>
      inserts[c] = 0 /\ pc[c] \notin {"insert", "rejected"}

\* C23: rows that hold entries of one postLogs call carry ids in the order of
\* the entries in the call's argument.
BatchOrderPreserved ==
  \A c \in Calls : \A i, j \in 1..Len(batch[c]) :
    i < j =>
      \A r1, r2 \in logs :
        (r1.entry = batch[c][i] /\ r2.entry = batch[c][j]) => r1.id < r2.id
\* a call with two entries was stored after another call's rows
BatchOrderWitness ==
  \E c \in Calls :
    /\ pc[c] = "resolved" /\ Len(batch[c]) >= 2
    /\ Range(batch[c]) \subseteq StoredEntries
    /\ \E r \in logs : r.entry \notin Range(batch[c]) /\ r.id = 1

\* C24: in every state in which 'ready' has been emitted or the hourly job
\* has been scheduled, every CREATE TABLE has succeeded and
\* isConnectionInProgress is false; the job is never scheduled before 'ready'.
ReadyAfterSchema ==
  /\ (readyEmitted > 0 \/ cronJobs > 0) => AllTablesCreated /\ ~isConnectionInProgress
  /\ cronJobs <= readyEmitted
\* 'ready' has been emitted, the job is scheduled, and a call that waited for
\* the gate has gone on
ReadyAfterSchemaWitness ==
  /\ readyEmitted = 1 /\ cronJobs = 1
  /\ \E c \in Calls : waited[c] /\ pc[c] = "insert"

\* C25: when setCacheSize has failed, 'ready' has not been emitted and no
\* sweep job has been scheduled.
FailedStepStopsInitialize ==
  cachePc = "rejected" => readyEmitted = 0 /\ cronJobs = 0

\* C26: ensureLogsTTL stores the default only in a state in which no logsTTL
\* row exists, so it never replaces a value that setConfig has stored.
EnsureLogsTTLKeepsStoredValue ==
  [][(ttlPc = "setConfig" /\ ttlPc' = "readBack") => ConfigItem(config, "logsTTL") = {}]_vars

\* C27: when ensureLogsTTL's read of the setting fails it rejects: it leaves
\* the read either for setConfig (no error, no row) or rejected, and never as
\* a call that has completed normally with no row read.
EnsureLogsTTLRejectsOnReadError ==
  [][(ttlPc = "getConfig" /\ ttlPc' # "getConfig" /\ ConfigItem(config, "logsTTL") = {})
       => ttlPc' \in {"setConfig", "rejected"}]_vars

\* C28: a deleteConfig call whose DELETE has been run has settled: resolved
\* with {} when a row was deleted, rejected with 'Configuration not found.'
\* when none was, rejected with the database error when the DELETE failed.
DeleteConfigSettles ==
  \A o \in Ops :
    (opKind[o] = "delete" /\ opPc[o] \notin {"idle", "run"})
    => /\ opPc[o] \in {"resolved", "rejected"}
       /\ opOutcome[o] \in {"{}", "notFound", "dbError"}

\* C29: the logs sweep and the notifications sweep are independent: a request
\* for either sweep that arrives while that sweep's own flag is clear starts
\* the sweep whatever the other flag says, and no step of one sweep changes
\* the other sweep's flag or the position of any of its invocations.
TwoSweepsIndependent ==
  [][/\ \A n \in Sweeps :
          nsPc[n] = "idle" /\ nsPc'[n] # "idle" /\ ~deleteExpiredNotificationItemsRunning
            => nsPc'[n] = "getConfig" /\ deleteExpiredNotificationItemsRunning'
     /\ \A s \in Sweeps :
          sweepPc[s] = "idle" /\ sweepPc'[s] # "idle" /\ ~deleteExpiredLogsRunning
            => sweepPc'[s] = "getConfig" /\ deleteExpiredLogsRunning'
     /\ (nsVars' # nsVars => UNCHANGED <<deleteExpiredLogsRunning, sweepPc>>)
     /\ (sweepVars' # sweepVars
           => UNCHANGED <<deleteExpiredNotificationItemsRunning, nsPc>>)]_vars

\* both sweeps Running at once, each waiting for a DELETE of its own table
TwoSweepsWitness ==
  /\ deleteExpiredLogsRunning
  /\ deleteExpiredNotificationItemsRunning
  /\ \E s \in Sweeps : sweepPc[s] = "delete" /\ sweepQueries[s] >= 2
  /\ \E n \in Sweeps : nsPc[n] = "delete" /\ nsIds[n] # {}

\* C30: an error in the sweep abandons the rest of the loop: the step in which
\* an invocation catches an error (a failed TTL read or a failed DELETE)
\* logs it, issues no statement, removes no row and ends the invocation, and
\* an invocation that has caught an error never issues a statement again.
SweepErrorAbandonsLoop ==
  [][\A s \in Sweeps :
       /\ sweepErrors'[s] > sweepErrors[s]
            => /\ sweepErrors'[s] = 1
               /\ sweepQueries'[s] = sweepQueries[s]
               /\ logs' = logs
               /\ sweepPc'[s] = "returned"
       /\ sweepErrors[s] > 0
            => /\ sweepQueries'[s] = sweepQueries[s]
               /\ sweepChunks'[s] = sweepChunks[s]
               /\ sweepPc'[s] = "returned"]_vars

\* a sweep that deleted a chunk, then had a DELETE fail, and has returned
\* with expired rows still in the table
SweepErrorWitness ==
  \E s \in Sweeps :
    /\ sweepErrors[s] = 1
    /\ ~sweepReadErr[s]
    /\ sweepPc[s] = "returned"
    /\ Len(sweepChunks[s]) >= 1
    /\ sweepChunks[s][1] > 0
    /\ Expired(logs, expirationTime[s]) # {}

\* C31: inter-chunk pacing: within one sweep a DELETE is issued either by the
\* callback of the TTL read (the first one, before any chunk) or by the timer
\* of the pause that follows the previous chunk; the callback of a DELETE
\* never issues the next DELETE, so two chunks are never back to back.
InterChunkPacing ==
  [][\A s \in Sweeps :
       /\ sweepPc[s] = "delete" => sweepQueries'[s] = sweepQueries[s]
       /\ sweepPc[s] = "delete" /\ sweepPc'[s] # sweepPc[s]
            => sweepPc'[s] \in {"sleep", "returned"}
       /\ sweepPc[s] # "delete" /\ sweepPc'[s] = "delete"
            => \/ sweepPc[s] = "getConfig" /\ sweepChunks[s] = <<>>
               \/ sweepPc[s] = "sleep" /\ sweepChunks[s] # <<>>]_vars

\* a sweep whose second DELETE is in flight, issued after the pause that
\* followed a first chunk that deleted rows
InterChunkPacingWitness ==
  \E s \in Sweeps :
    /\ sweepPc[s] = "delete"
    /\ sweepQueries[s] = 3
    /\ Len(sweepChunks[s]) = 1
    /\ sweepChunks[s][1] > 0

InsertAllOrNothing ==
  [][\A c \in Calls :
       batch[c] # <<>> /\ pc[c] = "insert" /\ pc'[c] # "insert"
         => /\ inserts[c] = 1 /\ inserts'[c] = 1
            /\ IF pc'[c] = "resolved"
                 THEN /\ {r.entry : r \in logs' \ logs} = Range(batch[c])
                      /\ Cardinality(logs' \ logs) = Len(batch[c])
                 ELSE pc'[c] = "rejected" /\ logs' = logs]_vars

\* one call stored its whole batch of MaxBatch entries with one INSERT and
\* another call's INSERT of a non-empty batch failed and stored nothing
InsertAllOrNothingWitness ==
  \E c, d \in Calls :
    /\ pc[c] = "resolved" /\ Len(batch[c]) = MaxBatch /\ inserts[c] = 1
    /\ Range(batch[c]) \subseteq StoredEntries
    /\ pc[d] = "rejected" /\ batch[d] # <<>> /\ inserts[d] = 1
    /\ Range(batch[d]) \cap StoredEntries = {}

\* C34: log ids increase monotonically and are never reused: every row a
\* step adds has an id above every id handed out before (all of which are
\* below nextId) and above every row in the table, whichever call adds it and
\* whatever a sweep has deleted; the rows added by one step have distinct ids.
LogIdsMonotonic ==
  [][/\ nextId' >= nextId
     /\ \A r \in logs' \ logs :
          /\ r.id >= nextId /\ r.id < nextId'
          /\ \A q \in logs : q.id < r.id
          /\ \A q \in logs' \ logs : q.id = r.id => q = r]_vars

\* a sweep has deleted rows and ended on an empty chunk, and the table holds a
\* row inserted after that (it is older than the sweep's cutoff, so the
\* sweep's last chunk would have taken it) whose id is the highest handed out
LogIdsWitness ==
  \E s \in Sweeps :
    /\ EndedClean(s)
    /\ sweepChunks[s][1] > 0
    /\ \E r \in logs : TextLess(r.ts, expirationTime[s]) /\ r.id = nextId - 1
    /\ Cardinality(logs) < nextId - 1
    /\ \E c, d \in Calls : c # d /\ pc[c] = "resolved" /\ pc[d] = "resolved"

\* C35: the schema gate is set once: from a state in which
\* isConnectionInProgress is false every step leads to a state in which it is
\* false, also the steps of a second initialize() and its table creation.
SchemaGateSetOnce ==
  [][~isConnectionInProgress => ~isConnectionInProgress']_vars

\* the gate is open, the first initialize() has finished, and a second one
\* has gone through its table creation, or has had a CREATE TABLE fail
SchemaGateSetOnceWitness ==
  /\ ~isConnectionInProgress
  /\ initPc = "ready"
  /\ againPc \in {"ready", "failed"}
  /\ \A q \in Queries : againDdl[q] \in {"ok", "err"}

\* C36: the config table holds at most one row per key: whatever setConfig
\* calls of the host and ensureLogsTTL calls of one or two initialize() runs
\* have interleaved, there is never more than one logsTTL row.
OneConfigRowPerKey ==
  \A r1, r2 \in config : r1.key = r2.key => r1 = r2

\* both ensureLogsTTL calls found no row and have each written the default,
\* a setConfig of the host has written its own value, and one row is there
OneConfigRowWitness ==
  /\ ttlPc \in {"readBack", "done"}
  /\ againTtlPc = "readBack"
  /\ \E o \in Ops : opKind[o] = "set" /\ opPc[o] \in {"readBack", "resolved"}
  /\ Cardinality(ConfigItem(config, "logsTTL")) = 1

\* the database failed to open, or a CREATE TABLE statement has failed
SetupFailed == dbOpen = "failed" \/ \E q \in Queries : ddl[q] = "err"

\* C37: once schema setup has failed it stays failed and
\* isConnectionInProgress stays true; every postLogs call made is in its
\* polling loop: it has issued no statement and is neither resolved nor
\* rejected.
SetupFailedPollsForever ==
  [][/\ SetupFailed => SetupFailed'
     /\ SetupFailed' =>
          /\ isConnectionInProgress'
          /\ \A c \in Calls : pc'[c] \in {"idle", "poll"} /\ inserts'[c] = 0]_vars

\* one CREATE TABLE failed and the others succeeded, and every postLogs
\* call has been made and is polling
SetupFailedWitness ==
  /\ \E q \in Queries : ddl[q] = "err" /\ \A p \in Queries \ {q} : ddl[p] = "ok"
  /\ \A c \in Calls : pc[c] = "poll" /\ waited[c] /\ batch[c] # <<>>

\* the cutoff deleteExpiredLogs computes from the logsTTL row as it is now
CutoffNow ==
  LET item == ConfigItem(config, "logsTTL")
  IN  toISOString(now - (IF item = {} THEN logsTTLDefault
                         ELSE parseInt((CHOOSE r \in item : TRUE).value).val))

\* C38: the cutoff is computed once per invocation: it is the one of the
\* logsTTL row read at the start, no step changes it while the sweep is
\* Running (a setConfig that completes meanwhile included), and every chunk
\* removes rows expired by that cutoff; the next invocation reads the row
\* anew.
CutoffComputedOnce ==
  [][\A s \in Sweeps :
       /\ sweepPc[s] = "getConfig" /\ sweepPc'[s] = "delete"
            => expirationTime'[s] = CutoffNow
       /\ sweepPc[s] \in {"delete", "sleep"} => expirationTime'[s] = expirationTime[s]
       /\ sweepPc[s] = "delete" /\ sweepPc'[s] = "sleep"
            => logs \ logs' \in Chunks(logs, expirationTime[s], ChunkLimit)]_vars

\* a setConfig of the host has completed after a sweep read the old TTL and
\* removed a chunk; the sweep's next DELETE is in flight, rows expired by its
\* cutoff are in the table, and none of them is expired by the new TTL
CutoffComputedOnceWitness ==
  \E s \in Sweeps, o \in Ops :
    /\ sweepPc[s] = "delete"
    /\ Len(sweepChunks[s]) >= 1
    /\ opPc[o] = "resolved"
    /\ expirationTime[s] # CutoffNow
    /\ Expired(logs, expirationTime[s]) # {}
    /\ Expired(logs, CutoffNow) = {}

====
